---- MODULE Spec2Model ----
(***************************************************************************)
(* Model of the TeraBox share-link resolver: the cookie normaliser, the    *)
(* redirect-following fetch client, the result cache and the request       *)
(* handlers of the repository's variants.                                  *)
(*                                                                         *)
(* A JavaScript string is a sequence of one-character strings, so that     *)
(* split, trim, indexOf, slice, toLowerCase, includes and sort act on      *)
(* characters as they do in the source.                                    *)
(***************************************************************************)
EXTENDS Integers, Sequences, FiniteSets, TLC

VARIABLES
  ck,   \* the cookie string being normalised, merged or permuted
  fc,   \* the call of the redirecting fetch client in progress
  up,   \* the upstream's redirect chain and what the call has done so far
  h,    \* the handler run in progress: its locals and what it has done so far
  env,  \* the deployment's environment (COOKIE)
  globalCache,  \* terabox.js: the in-memory result cache
  clock,        \* Date.now(), and how often it has advanced
  edgeCache,    \* route.ts: caches.default, the platform's cache
  kv,           \* api.ts: the value of the key "cookie" in COOKIE_KV
  bg,           \* terabox.js: the other invocation in flight, while it is not being run
  sz,           \* getFormattedSize: the byte count and the string made of it
  tk            \* part_000: a page's text and the jsToken read from it

vars == <<ck, fc, up, h, env, globalCache, clock, edgeCache, kv, bg, sz, tk>>

handlerVars == <<h, env, globalCache, clock, edgeCache, kv, bg, sz, tk>>

cookieVars == <<ck>>
fetchVars == <<fc, up>>

(***************************************************************************)
(* Bounds of the model.                                                    *)
(***************************************************************************)
\* longest input, in ';'-separated segments, handed to normalizeCookie alone
MaxSegs == 2
\* longest input whose segments are permuted
MaxPermSegs == 2
\* longest stored jar J and longest Set-Cookie fragment F of a merge
MaxJarSegs == 2
MaxFragSegs == 1
\* longest redirect chain the upstream has in store for one call
MaxChain == 11
\* most responses of one call that carry a Set-Cookie header
MaxSetCookies == 1
\* most handler runs in a row, and most advances of the clock
MaxRuns == 2
MaxTicks == 1
\* how long a request is left waiting for its answer, in fetch timeouts
MaxWait == 2

(***************************************************************************)
(* String primitives (ECMAScript String.prototype).                        *)
(***************************************************************************)
UpperChars == <<"A","B","C","D","E","F","G","H","I","J","K","L","M",
                "N","O","P","Q","R","S","T","U","V","W","X","Y","Z">>
LowerChars == <<"a","b","c","d","e","f","g","h","i","j","k","l","m",
                "n","o","p","q","r","s","t","u","v","w","x","y","z">>
DigitChars == <<"0","1","2","3","4","5","6","7","8","9">>

\* the value of a variable that holds no string yet
NONE == <<"none">>

\* position of c in the tuple t, 0 when absent
PosIn(c, t) == IF \E i \in 1..Len(t) : t[i] = c
               THEN CHOOSE i \in 1..Len(t) : t[i] = c
               ELSE 0

\* upper-case letter -> lower-case letter
LowerOf == [c \in {UpperChars[i] : i \in 1..Len(UpperChars)} |-> LowerChars[PosIn(c, UpperChars)]]

ToLowerChar(c) == IF c \in DOMAIN LowerOf THEN LowerOf[c] ELSE c

\* s.toLowerCase()
ToLowerCase(s) == [i \in 1..Len(s) |-> ToLowerChar(s[i])]

\* the ASCII characters cookies are made of, other than letters and digits
PunctChars == <<" ", ",", "-", "/", ";", "=", "_">>
PunctCodes == <<32, 44, 45, 47, 59, 61, 95>>

\* the UTF-16 code unit of a character
CodeUnitOf ==
  [c \in {UpperChars[i] : i \in 1..Len(UpperChars)} \cup {LowerChars[i] : i \in 1..Len(LowerChars)}
         \cup {DigitChars[i] : i \in 1..Len(DigitChars)} \cup {PunctChars[i] : i \in 1..Len(PunctChars)} |->
     IF PosIn(c, UpperChars) > 0 THEN 64 + PosIn(c, UpperChars)
     ELSE IF PosIn(c, LowerChars) > 0 THEN 96 + PosIn(c, LowerChars)
     ELSE IF PosIn(c, DigitChars) > 0 THEN 47 + PosIn(c, DigitChars)
     ELSE PunctCodes[PosIn(c, PunctChars)]]

CodeUnit(c) == CodeUnitOf[c]

IsSpace(c) == c = " "

\* s.slice(from, to) with 0-based from (inclusive) and to (exclusive)
Slice(s, from, to) == IF to <= from THEN <<>> ELSE SubSeq(s, from + 1, to)

\* s.indexOf(c) from 0-based position k, for a one-character needle: 0-based,
\* -1 when absent
RECURSIVE IndexOfCharFrom(_, _, _)
IndexOfCharFrom(s, c, k) ==
  IF k >= Len(s) THEN -1
  ELSE IF s[k + 1] = c THEN k
  ELSE IndexOfCharFrom(s, c, k + 1)

IndexOfChar(s, c) == IndexOfCharFrom(s, c, 0)

RECURSIVE TrimStart(_)
TrimStart(s) == IF s # <<>> /\ IsSpace(Head(s)) THEN TrimStart(Tail(s)) ELSE s

RECURSIVE TrimEnd(_)
TrimEnd(s) == IF s # <<>> /\ IsSpace(s[Len(s)]) THEN TrimEnd(SubSeq(s, 1, Len(s) - 1)) ELSE s

\* s.trim()
Trim(s) == TrimEnd(TrimStart(s))

\* s.split(c) for a one-character separator: always at least one piece
RECURSIVE Split(_, _)
Split(s, c) ==
  LET k == IndexOfChar(s, c)
  IN IF k = -1 THEN <<s>>
     ELSE <<Slice(s, 0, k)>> \o Split(Slice(s, k + 1, Len(s)), c)

\* pieces.join(sep)
RECURSIVE Join(_, _)
Join(pieces, sep) ==
  IF pieces = <<>> THEN <<>>
  ELSE IF Len(pieces) = 1 THEN pieces[1]
  ELSE pieces[1] \o sep \o Join(Tail(pieces), sep)

\* s.startsWith(p)
StartsWith(s, p) == Len(p) <= Len(s) /\ SubSeq(s, 1, Len(p)) = p

\* s.includes(p)
Includes(s, p) == \E i \in 0..(Len(s) - Len(p)) : SubSeq(s, i + 1, i + Len(p)) = p

\* array.filter(pred) keeps the order of the kept elements
RECURSIVE FilterNonEmpty(_)
FilterNonEmpty(pieces) ==
  IF pieces = <<>> THEN <<>>
  ELSE IF Head(pieces) = <<>> THEN FilterNonEmpty(Tail(pieces))
  ELSE <<Head(pieces)>> \o FilterNonEmpty(Tail(pieces))

\* a < b in the order of the default Array.prototype.sort: by code units
RECURSIVE CodeUnitLess(_, _)
CodeUnitLess(a, b) ==
  IF b = <<>> THEN FALSE
  ELSE IF a = <<>> THEN TRUE
  ELSE IF CodeUnit(Head(a)) # CodeUnit(Head(b)) THEN CodeUnit(Head(a)) < CodeUnit(Head(b))
  ELSE CodeUnitLess(Tail(a), Tail(b))

\* the primary collation order of the characters cookie names are made of
CollationChars == <<" ","_","-","/">> \o DigitChars \o LowerChars

\* character -> its primary collation rank
CollationRank == [c \in {CollationChars[i] : i \in 1..Len(CollationChars)} |-> PosIn(c, CollationChars)]

PrimaryRank(c) == LET l == ToLowerChar(c) IN IF l \in DOMAIN CollationRank THEN CollationRank[l] ELSE 0

RECURSIVE PrimaryLess(_, _)
PrimaryLess(a, b) ==
  IF b = <<>> THEN FALSE
  ELSE IF a = <<>> THEN TRUE
  ELSE LET x == PrimaryRank(Head(a))
           y == PrimaryRank(Head(b))
       IN IF x # y THEN x < y ELSE PrimaryLess(Tail(a), Tail(b))

\* among strings equal but for case: lower case first at the first difference
RECURSIVE CaseLess(_, _)
CaseLess(a, b) ==
  IF a = <<>> \/ b = <<>> THEN FALSE
  ELSE IF Head(a) # Head(b) THEN Head(a) \notin DOMAIN LowerOf
  ELSE CaseLess(Tail(a), Tail(b))

\* a.localeCompare(b) < 0
LocaleLess(a, b) ==
  \/ PrimaryLess(a, b)
  \/ /\ ToLowerCase(a) = ToLowerCase(b)
     /\ CaseLess(a, b)

(***************************************************************************)
(* Cookie jar merge: normalizeCookie of functions/api.ts.                  *)
(* The Map of the source is a sequence of <<key, value>> pairs in          *)
(* insertion order (a JavaScript Map iterates in insertion order and       *)
(* set() on a present key keeps the key's place).                          *)
(***************************************************************************)
ATTR_NAMES == {
  <<"e","x","p","i","r","e","s">>,
  <<"p","a","t","h">>,
  <<"d","o","m","a","i","n">>,
  <<"m","a","x","-","a","g","e">>,
  <<"s","a","m","e","s","i","t","e">>,
  <<"s","e","c","u","r","e">>,
  <<"h","t","t","p","o","n","l","y">>,
  <<"p","r","i","o","r","i","t","y">>,
  <<"p","a","r","t","i","t","i","o","n","e","d">> }

\* cookie.split(';').map(s => s.trim()).filter(Boolean)
Parts(cookie) ==
  LET pieces == Split(cookie, ";")
  IN FilterNonEmpty([i \in 1..Len(pieces) |-> Trim(pieces[i])])

MapHas(map, key) == \E i \in 1..Len(map) : map[i][1] = key

MapGet(map, key) == map[CHOOSE i \in 1..Len(map) : map[i][1] = key][2]

\* map.set(key, value)
MapSet(map, key, value) ==
  IF MapHas(map, key)
  THEN [i \in 1..Len(map) |-> IF map[i][1] = key THEN <<key, value>> ELSE map[i]]
  ELSE Append(map, <<key, value>>)

\* a plausible slip: every occurrence is stored, an empty value included
MapPutAlways(map, key, value) == MapSet(map, key, value)

\* a plausible slip: occurrences are collected without de-duplication by name
MapPutNoDedup(map, key, value) == Append(map, <<key, value>>)

\* the same-name rule: an empty value is stored only when the name is new
MapPut(map, key, value) ==
  IF value = <<>>
  THEN IF ~MapHas(map, key) THEN MapSet(map, key, value) ELSE map
  ELSE MapSet(map, key, value)

\* a plausible slip: the attribute test without toLowerCase()
IsAttrNameCaseSensitive(key) == key \in ATTR_NAMES

\* ATTR_NAMES.has(key.toLowerCase())
IsAttrName(key) == ToLowerCase(key) \in ATTR_NAMES

\* the key of a part that holds '=' at 0-based index eqIdx
PartKey(part, eqIdx) == Trim(Slice(part, 0, eqIdx))

PartValue(part, eqIdx) == Trim(Slice(part, eqIdx + 1, Len(part)))

\* one iteration of the loop over the parts
PartStep(map, part) ==
  LET eqIdx == IndexOfChar(part, "=")
  IN IF eqIdx = -1 THEN map
     ELSE LET key == PartKey(part, eqIdx)
              value == PartValue(part, eqIdx)
          IN IF IsAttrName(key) THEN map
             ELSE IF key = <<>> THEN map
             ELSE MapPut(map, key, value)

RECURSIVE BuildMap(_, _)
BuildMap(map, parts) ==
  IF parts = <<>> THEN map
  ELSE BuildMap(PartStep(map, Head(parts)), Tail(parts))

\* the place of e in a sequence sorted by key: after every entry not greater
RECURSIVE InsertByKey(_, _)
InsertByKey(sorted, e) ==
  IF sorted = <<>> THEN <<e>>
  ELSE IF LocaleLess(e[1], Head(sorted)[1]) THEN <<e>> \o sorted
  ELSE <<Head(sorted)>> \o InsertByKey(Tail(sorted), e)

RECURSIVE SortedByKey(_, _)
SortedByKey(done, entries) ==
  IF entries = <<>> THEN done
  ELSE SortedByKey(InsertByKey(done, Head(entries)), Tail(entries))

\* a plausible slip: options.sort taken as false, entries left in insertion order
SortEntriesOff(entries) == entries

\* entries.sort(([a], [b]) => a.localeCompare(b)), a stable sort
SortEntries(entries) == SortedByKey(<<>>, entries)

\* entries.map(([k, v]) => `${k}=${v}`).join('; ')
Serialize(entries) ==
  Join([i \in 1..Len(entries) |-> entries[i][1] \o <<"=">> \o entries[i][2]], <<";", " ">>)

\* the entries of the jar normalizeCookie builds, in output order
JarEntries(cookie) == SortEntries(BuildMap(<<>>, Parts(cookie)))

normalizeCookie(cookie) == Serialize(JarEntries(cookie))

(***************************************************************************)
(* The earlier normalizeCookie of functions/api.ts: trim, drop empty       *)
(* segments, sort the segments, join.                                      *)
(***************************************************************************)
RECURSIVE InsertByCodeUnit(_, _)
InsertByCodeUnit(sorted, e) ==
  IF sorted = <<>> THEN <<e>>
  ELSE IF CodeUnitLess(e, Head(sorted)) THEN <<e>> \o sorted
  ELSE <<Head(sorted)>> \o InsertByCodeUnit(Tail(sorted), e)

RECURSIVE SortedByCodeUnit(_, _)
SortedByCodeUnit(done, pieces) ==
  IF pieces = <<>> THEN done
  ELSE SortedByCodeUnit(InsertByCodeUnit(done, Head(pieces)), Tail(pieces))

normalizeCookieSort(cookie) == Join(SortedByCodeUnit(<<>>, Parts(cookie)), <<";", " ">>)

\* cookieStore += (cookieStore ? "; " : "") + setCookie
AppendCookie(cookieStore, piece) ==
  IF cookieStore = <<>> THEN piece ELSE cookieStore \o <<";", " ">> \o piece

(***************************************************************************)
(* URLs (WHATWG URL) as strings: scheme "://" host path "?" query.         *)
(***************************************************************************)
\* s.indexOf(p) for a needle of any length: 0-based, -1 when absent
RECURSIVE IndexOfFrom(_, _, _)
IndexOfFrom(s, p, k) ==
  IF k + Len(p) > Len(s) THEN -1
  ELSE IF SubSeq(s, k + 1, k + Len(p)) = p THEN k
  ELSE IndexOfFrom(s, p, k + 1)

IndexOf(s, p) == IndexOfFrom(s, p, 0)

\* s.lastIndexOf(c) for a one-character needle
LastIndexOfChar(s, c) ==
  IF \E i \in 1..Len(s) : s[i] = c
  THEN (CHOOSE i \in 1..Len(s) : s[i] = c /\ \A j \in (i+1)..Len(s) : s[j] # c) - 1
  ELSE -1

\* a URL with its scheme: letters, then ':', before any '/'
HasScheme(u) ==
  LET k == IndexOfChar(u, ":")
  IN k > 0 /\ \A i \in 1..k : PosIn(u[i], LowerChars) > 0 \/ PosIn(u[i], UpperChars) > 0

\* scheme://host of an absolute URL
UrlOrigin(u) ==
  LET a == IndexOf(u, <<":", "/", "/">>)
      rest == Slice(u, a + 3, Len(u))
      b == IndexOfChar(rest, "/")
      q == IndexOfChar(rest, "?")
      cut == IF b # -1 THEN b ELSE IF q # -1 THEN q ELSE Len(rest)
  IN Slice(u, 0, a + 3 + cut)

\* the URL without "?query"
UrlNoQuery(u) == IF IndexOfChar(u, "?") = -1 THEN u ELSE Slice(u, 0, IndexOfChar(u, "?"))

\* url.pathname: from the first '/' after the host, "/" when there is none
UrlPathname(u) ==
  LET p == Slice(UrlNoQuery(u), Len(UrlOrigin(u)), Len(UrlNoQuery(u)))
  IN IF p = <<>> THEN <<"/">> ELSE p

\* the URL's scheme is http or https
IsHttpUrl(u) ==
  \/ StartsWith(ToLowerCase(u), <<"h","t","t","p",":","/","/">>)
  \/ StartsWith(ToLowerCase(u), <<"h","t","t","p","s",":","/","/">>)

\* the query without the '?', "" when there is none
UrlQuery(u) == IF IndexOfChar(u, "?") = -1 THEN <<>> ELSE Slice(u, IndexOfChar(u, "?") + 1, Len(u))

\* new URL(loc, current).href
ResolveUrl(loc, current) ==
  IF HasScheme(loc) THEN loc
  ELSE IF loc # <<>> /\ loc[1] = "/" THEN UrlOrigin(current) \o loc
  ELSE IF loc # <<>> /\ loc[1] = "?" THEN UrlNoQuery(current) \o loc
  ELSE LET base == UrlOrigin(current) \o UrlPathname(current)
       IN Slice(base, 0, LastIndexOfChar(base, "/") + 1) \o loc

(***************************************************************************)
(* The redirecting fetch client: fetchFollowWithCookies / fetchFollowCookies *)
(*                                                                         *)
(* A call is a record                                                      *)
(*   variant      how Set-Cookie is merged: "pair" (route.ts), "pairOnce"  *)
(*                (terabox.js, with fetchWithTimeout) or "raw" (api.ts)    *)
(*   current      the URL of the request in flight                         *)
(*   cookieStore  the cookie string of the call                            *)
(*   i, max       the loop counter and maxRedirects                        *)
(*   method       the HTTP method                                          *)
(*   state        "await": a request is in flight; "return"; "throw"       *)
(*   res          the response returned (state "return")                   *)
(*   error        the error thrown (state "throw")                         *)
(* Between two awaits the loop body runs without interruption.             *)
(***************************************************************************)
NoHeader == <<"absent">>

NoResponse == [status |-> 0, url |-> NONE, location |-> NoHeader, setCookie |-> NoHeader, body |-> "none",
               headers |-> <<>>]

TooManyRedirects == "Too many redirects"

NoCall == [variant |-> "none", current |-> NONE, cookieStore |-> <<>>, i |-> 0, max |-> 0,
           method |-> "GET", state |-> "idle", res |-> NoResponse, error |-> "none"]

\* headers.get("Cookie") ?? "": the header's value, "" when it is not set
CookieOf(header) == IF header = NoHeader THEN <<>> ELSE header

\* if (cookieStore) hdrs.set("Cookie", cookieStore): the Cookie header of a request
CookieHeader(base, cookieStore) == IF cookieStore # <<>> THEN cookieStore ELSE base

\* the request a call has in flight: fetch(current, { headers, method, redirect: "manual" })
RequestOf(call, base) ==
  [url |-> call.current, method |-> call.method, cookie |-> CookieHeader(base, call.cookieStore),
   redirect |-> "manual"]

\* the loop goes on as long as the upstream redirects
LoopGoesOnWhileRedirected(i, max) == TRUE

\* the loop bound taken inclusive (i <= maxRedirects)
LoopGoesOnInclusive(i, max) == i <= max

\* the loop bound taken one short (i < maxRedirects - 1)
LoopStopsEarly(i, max) == i < max - 1

\* the loop condition i < maxRedirects
LoopGoesOn(i, max) == i < max

\* the loop is entered, or left at once when maxRedirects is 0
FetchCall(variant, url, base, method, max) ==
  [variant |-> variant, current |-> url, cookieStore |-> CookieOf(base), i |-> 0, max |-> max,
   method |-> method,
   state |-> IF LoopGoesOn(0, max) THEN "await" ELSE "throw",
   res |-> NoResponse,
   error |-> IF LoopGoesOn(0, max) THEN "none" ELSE TooManyRedirects]

\* setCookie.split(";")[0]
CookiePair(setCookie) == Split(setCookie, ";")[1]

\* the cookieStore after a response's Set-Cookie header
MergeSetCookie(variant, cookieStore, setCookie) ==
  IF setCookie = NoHeader \/ setCookie = <<>> THEN cookieStore
  ELSE CASE variant = "pair" -> AppendCookie(cookieStore, CookiePair(setCookie))
         [] variant = "pairOnce" ->
              IF ~Includes(cookieStore, CookiePair(setCookie))
              THEN AppendCookie(cookieStore, CookiePair(setCookie))
              ELSE cookieStore
         [] variant = "raw" -> AppendCookie(cookieStore, setCookie)

\* location.startsWith("http") ? location : new URL(location, current).href
NextUrl(location, current) ==
  IF StartsWith(location, <<"h","t","t","p">>) THEN location ELSE ResolveUrl(location, current)

IsRedirectStatus(status) == status >= 300 /\ status < 400

\* the response is a redirect with somewhere to go
FollowsRedirect(r) == IsRedirectStatus(r.status) /\ r.location # NoHeader /\ r.location # <<>>

\* a redirect followed leaves the loop counter as it was
FetchResumeUncounted(call, r) ==
  LET store == MergeSetCookie(call.variant, call.cookieStore, r.setCookie)
      got == [r EXCEPT !.url = call.current]
  IN IF FollowsRedirect(r)
     THEN [call EXCEPT !.cookieStore = store, !.current = NextUrl(r.location, call.current)]
     ELSE [call EXCEPT !.cookieStore = store, !.state = "return", !.res = got]

\* the rest of the loop body once the response r to the request in flight is
\* there, up to the next request, the return or the throw
FetchResume(call, r) ==
  LET store == MergeSetCookie(call.variant, call.cookieStore, r.setCookie)
      got == [r EXCEPT !.url = call.current]
  IN IF FollowsRedirect(r)
     THEN IF LoopGoesOn(call.i + 1, call.max)
          THEN [call EXCEPT !.cookieStore = store, !.i = @ + 1,
                            !.current = NextUrl(r.location, call.current)]
          ELSE [call EXCEPT !.cookieStore = store, !.i = @ + 1,
                            !.current = NextUrl(r.location, call.current),
                            !.state = "throw", !.error = TooManyRedirects]
     ELSE [call EXCEPT !.cookieStore = store, !.state = "return", !.res = got]

\* fetch rejects (a network failure, or the abort of fetchWithTimeout)
FetchReject(call, err) == [call EXCEPT !.state = "throw", !.error = err]

(***************************************************************************)
(* Inputs of the cookie checks: cookie strings built from ';'-separated    *)
(* segments.                                                               *)
(***************************************************************************)
\* "no value yet": never a string, whose elements are single characters

\* cookies, two names differing only in case, blanks around name and value
CookieSegs == {
  <<"a","=","1">>,
  <<"a","=","2">>,
  <<"a","=">>,
  <<"b","=","1">>,
  <<"A","=","1">>,
  <<"b"," ","="," ","2">> }

\* Set-Cookie attributes in mixed case, flags, a stray word, a nameless pair
AttrSegs == {
  <<"P","a","t","h","=","/">>,
  <<"E","X","P","I","R","E","S","=","1">>,
  <<"d","o","m","a","i","n","=","x">>,
  <<"M","a","x","-","A","g","e","=","0">>,
  <<"S","a","m","e","S","i","t","e","=","L","a","x">>,
  <<"S","e","c","u","r","e">>,
  <<"H","t","t","p","O","n","l","y">>,
  <<"p","r","i","o","r","i","t","y","=","h","i","g","h">>,
  <<"P","a","r","t","i","t","i","o","n","e","d">>,
  <<"j","u","n","k">>,
  <<"=","x">> }

\* segments whose order is permuted
PermSegs == CookieSegs \cup {<<"P","a","t","h","=","/">>, <<"S","e","c","u","r","e">>}

\* segments of a stored jar and of a Set-Cookie fragment
JarSegs == {
  <<"a","=","1">>,
  <<"a","=","2">>,
  <<"a","=">>,
  <<"b","=","1">>,
  <<"P","a","t","h","=","/">> }

FragSegs == {
  <<"a","=","1">>,
  <<"a","=","3">>,
  <<"a","=">>,
  <<"b","=">>,
  <<"H","t","t","p","O","n","l","y">> }

SegSeqs(pool, n) == UNION {[1..k -> pool] : k \in 0..n}

CookieStrings(pool, n) == {Join(q, <<";", " ">>) : q \in SegSeqs(pool, n)}

Orderings(n) == {f \in [1..n -> 1..n] : \A i, j \in 1..n : i # j => f[i] # f[j]}

(***************************************************************************)
(* The cookie checks' state: ck.store is the cookie string at hand.        *)
(*  mode "one":   one input, normalised;                                   *)
(*  mode "perm":  one input, normalised as it is and with its segments     *)
(*                permuted;                                                *)
(*  mode "merge": a stored jar ck.jar into which the Set-Cookie value      *)
(*                ck.frag is merged as the fetch client merges it, and     *)
(*                normalised after each merge.                             *)
(***************************************************************************)
\* in: the string normalised; full: normalizeCookie's output; sort: the earlier
\* normalizeCookie's output
NoNorm == [in |-> NONE, full |-> NONE, sort |-> NONE]

Normalised(cookie) ==
  [in |-> cookie, full |-> normalizeCookie(cookie), sort |-> normalizeCookieSort(cookie)]

(***************************************************************************)
(* A handler run.                                                          *)
(*   pc         "idle", the fetch the run awaits ("main", "page", "list",  *)
(*              "dlink", "proxy"), or "done"                               *)
(*   n          how many runs have started                                 *)
(*   shareUrl, download, proxy, nodirectlink, range                        *)
(*              the request's parameters and its Range header              *)
(*   cookie     the Cookie header of the handler's `headers` object        *)
(*   oldCookie  the cookie string read from COOKIE_KV                      *)
(*   jsToken, surl, dlink               the negotiation's results so far   *)
(*   response   the response of the run                                    *)
(* and, recorded for the properties:                                       *)
(*   hit        the cache lookup of the run found a live entry             *)
(*   evicted    the cache lookup of the run deleted an entry               *)
(*   wrote      the run stored an entry                                    *)
(*   cacheWas   the cache when the run started                             *)
(*   issued     the fetches for which the run has sent a request           *)
(*   setCookies how many responses with Set-Cookie the run has received    *)
(*   delivered  the name=value pairs of the Set-Cookie headers received    *)
(*              during the share-page fetch                                *)
(*   sent       the Cookie header of the first request of each fetch       *)
(*   proxyReq   the headers of the proxy request                           *)
(*   order      the fetches of the run, in the order they were started     *)
(*   got        the body each fetch returned, as far as the handler looks  *)
(*              at it                                                      *)
(*   lookedAt   the time of the cache lookup                               *)
(*   waited     the time the request in flight has been waited for         *)
(*   proxyStatus  the status of the download link's answer to the proxy    *)
(*   threw      the message of the exception the run has raised            *)
(***************************************************************************)
\* the resolved share of a response or a cache entry, NoData for none
NoData == [link |-> NONE, direct_link |-> NONE]

NoReply == [statusCode |-> 0, error |-> "none", location |-> NONE, data |-> NoData, headers |-> <<>>]

NoRequest == [url |-> NONE, cookie |-> NoHeader, range |-> NoHeader]

NoRun == [pc |-> "idle", n |-> 0, shareUrl |-> NONE, download |-> FALSE, proxy |-> FALSE,
          nodirectlink |-> FALSE, range |-> NoHeader, cookie |-> NoHeader,
          oldCookie |-> <<>>, jsToken |-> FALSE, surl |-> NONE, dlink |-> NONE,
          response |-> NoReply,
          hit |-> FALSE, evicted |-> FALSE, wrote |-> FALSE, cacheWas |-> <<>>,
          issued |-> {}, setCookies |-> 0, delivered |-> {},
          sent |-> <<>>, proxyReq |-> NoRequest,
          order |-> <<>>, got |-> <<>>, lookedAt |-> 0, waited |-> 0, proxyStatus |-> 0,
          threw |-> "none"]

\* no byte count is being formatted
NoSize == [bytes |-> 0, legacy |-> FALSE, out |-> NONE]

\* no page is being searched for its jsToken
NoToken == [html |-> <<>>, consulted |-> 0, jsToken |-> NONE]

\* no other invocation is in flight
NoBg == [h |-> NoRun, fc |-> NoCall]

\* COOKIE: process.env.COOKIE; edge: caches.default exists
NoEnv == [COOKIE |-> NoHeader, edge |-> FALSE]

HandlerIdle ==
  /\ h = NoRun
  /\ env = NoEnv
  /\ globalCache = <<>>
  /\ clock = [now |-> 0, ticks |-> 0]
  /\ edgeCache = <<>>
  /\ kv = NONE
  /\ bg = NoBg
  /\ sz = NoSize
  /\ tk = NoToken

\* a Map as a function on its keys
MapSetKey(map, key, value) == [k \in (DOMAIN map) \cup {key} |-> IF k = key THEN value ELSE map[k]]

MapDeleteKey(map, key) == [k \in (DOMAIN map) \ {key} |-> map[k]]

NoCk == [mode |-> "none", jar |-> <<>>, frag |-> <<>>, store |-> <<>>, merges |-> 0,
         norm |-> [n \in 0..2 |-> NoNorm], perm |-> NONE, permNorm |-> NoNorm]

CookieIdle == ck = NoCk

NoUpstream == [chainLen |-> 0, terminal |-> 0, requests |-> 0, answered |-> 0,
               redirects |-> 0, setCookies |-> 0, rejected |-> FALSE, delivered |-> {}]

FetchIdle == fc = NoCall /\ up = NoUpstream

CkStart ==
  \E mode \in {"one", "perm", "merge"} :
    \E jar \in (CASE mode = "one" -> CookieStrings(CookieSegs \cup AttrSegs, MaxSegs)
                  [] mode = "perm" -> CookieStrings(PermSegs, MaxPermSegs)
                  [] mode = "merge" -> CookieStrings(JarSegs, MaxJarSegs)) :
      \E frag \in (IF mode = "merge" THEN CookieStrings(FragSegs, MaxFragSegs) ELSE {<<>>}) :
        ck = [mode |-> mode, jar |-> jar, frag |-> frag, store |-> jar, merges |-> 0,
              norm |-> [n \in 0..2 |-> NoNorm],
              perm |-> NONE, permNorm |-> NoNorm]

CkInit == CkStart /\ FetchIdle /\ HandlerIdle

\* normalizeCookie applied to the cookie string at hand
CkNormalize ==
  /\ ck.norm[ck.merges] = NoNorm
  /\ ck' = [ck EXCEPT !.norm[ck.merges] = Normalised(ck.store)]
  /\ UNCHANGED <<fetchVars, handlerVars>>

\* the fetch client receives Set-Cookie: ck.frag and appends it to cookieStore
CkMerge ==
  /\ ck.mode = "merge"
  /\ ck.norm[ck.merges] # NoNorm
  /\ ck.frag # <<>>
  /\ ck.merges < 2
  /\ ck' = [ck EXCEPT !.store = AppendCookie(ck.store, ck.frag), !.merges = @ + 1]
  /\ UNCHANGED <<fetchVars, handlerVars>>

\* the same segments in another order
CkPermute ==
  /\ ck.mode = "perm"
  /\ ck.norm[0] # NoNorm
  /\ ck.perm = NONE
  /\ LET segs == Split(ck.store, ";")
     IN \E f \in Orderings(Len(segs)) :
          ck' = [ck EXCEPT !.perm = Join([i \in 1..Len(segs) |-> segs[f[i]]], <<";">>)]
  /\ UNCHANGED <<fetchVars, handlerVars>>

CkNormalizePerm ==
  /\ ck.perm # NONE
  /\ ck.permNorm = NoNorm
  /\ ck' = [ck EXCEPT !.permNorm = Normalised(ck.perm)]
  /\ UNCHANGED <<fetchVars, handlerVars>>

CkNext == CkNormalize \/ CkMerge \/ CkPermute \/ CkNormalizePerm

SpecCookie == CkInit /\ [][CkNext]_vars

(***************************************************************************)
(* Reading a cookie string as the claims do: its ';'-separated segments,   *)
(* and of a segment with '=' the name before and the value after the       *)
(* first '='.                                                              *)
(***************************************************************************)
HasEq(seg) == IndexOfChar(seg, "=") # -1

SegName(seg) == Trim(Slice(seg, 0, IndexOfChar(seg, "=")))

SegValue(seg) == Trim(Slice(seg, IndexOfChar(seg, "=") + 1, Len(seg)))

\* the attribute tokens the data model names
AttributeTokens == {
  <<"p","a","t","h">>,
  <<"d","o","m","a","i","n">>,
  <<"e","x","p","i","r","e","s">>,
  <<"m","a","x","-","a","g","e">>,
  <<"s","a","m","e","s","i","t","e">>,
  <<"s","e","c","u","r","e">>,
  <<"h","t","t","p","o","n","l","y">>,
  <<"p","r","i","o","r","i","t","y">>,
  <<"p","a","r","t","i","t","i","o","n","e","d">> }

IsAttributeSeg(seg) == HasEq(seg) /\ ToLowerCase(SegName(seg)) \in AttributeTokens

\* a segment that names a cookie: name=value, the name no attribute token
IsCookieSeg(seg) == HasEq(seg) /\ SegName(seg) # <<>> /\ ~IsAttributeSeg(seg)

\* the normalisation done last, if any: every normalisation is the last one
\* in the state its action leads to
NormsDone ==
  IF ck.permNorm # NoNorm THEN {ck.permNorm}
  ELSE IF ck.perm # NONE \/ ck.norm[ck.merges] = NoNorm THEN {}
  ELSE {ck.norm[ck.merges]}

\* the entries of a serialised jar
JarSegsOf(out) == Parts(out)

\* C7: the jar normalizeCookie produces holds no entry named by an attribute
\* token (in any case) and no entry that does not come from a name=value
\* segment of the input: segments without '=' leave no entry.
C7_NoAttributeEntries ==
  \A r \in NormsDone :
    LET segs == Parts(r.in)
        outs == JarSegsOf(r.full)
    IN \A i \in 1..Len(outs) :
         /\ HasEq(outs[i])
         /\ ToLowerCase(SegName(outs[i])) \notin AttributeTokens
         /\ \E j \in 1..Len(segs) :
              /\ HasEq(segs[j])
              /\ SegName(segs[j]) = SegName(outs[i])
              /\ SegValue(segs[j]) = SegValue(outs[i])

\* C7 witness: a jar with a mixed-case attribute pair and a flag without '='
\* has been normalised, and the cookie beside them is all that is left.
C7_Witness ==
  /\ ck.norm[1] # NoNorm
  /\ LET segs == Parts(ck.norm[1].in)
     IN /\ \E j \in 1..Len(segs) : IsAttributeSeg(segs[j]) /\ SegName(segs[j]) \notin AttributeTokens
        /\ \E j \in 1..Len(segs) : ~HasEq(segs[j])
  /\ ck.norm[1].full = <<"a","=","1">>

\* C8: for every cookie name of the input, the jar holds the value of the
\* name's last non-empty occurrence, and the empty value only when no
\* occurrence of the name has a value.
C8_LastNonEmptyWins ==
  \A r \in NormsDone :
    LET segs == Parts(r.in)
        outs == JarSegsOf(r.full)
        occ(name) == {j \in 1..Len(segs) : IsCookieSeg(segs[j]) /\ SegName(segs[j]) = name}
        filled(name) == {j \in occ(name) : SegValue(segs[j]) # <<>>}
        last(name) == CHOOSE j \in filled(name) : \A k \in filled(name) : k <= j
        expected(name) == IF filled(name) = {} THEN <<>> ELSE SegValue(segs[last(name)])
    IN \A j \in 1..Len(segs) :
         IsCookieSeg(segs[j]) =>
           LET name == SegName(segs[j])
               held == {i \in 1..Len(outs) : HasEq(outs[i]) /\ SegName(outs[i]) = name}
           IN /\ Cardinality(held) = 1
              /\ \A i \in held : SegValue(outs[i]) = expected(name)

\* C8 witness: a name set to a value and later to the empty value has been
\* normalised and the jar kept the value.
C8_Witness ==
  \E r \in NormsDone :
    LET segs == Parts(r.in)
    IN /\ \E j, k \in 1..Len(segs) :
            /\ j < k
            /\ IsCookieSeg(segs[j]) /\ IsCookieSeg(segs[k])
            /\ SegName(segs[j]) = SegName(segs[k])
            /\ SegValue(segs[j]) # <<>>
            /\ SegValue(segs[k]) = <<>>
       /\ r.full # <<>>

\* C9: merging the same Set-Cookie fragment F into the jar J a second time
\* leaves the normalised jar as the first merge left it:
\* normalizeCookie(J; F; F) = normalizeCookie(J; F).  It holds of every J and
\* F, the fragments that fill a name J holds empty included.
C9_MergeIdempotent ==
  (ck.mode = "merge" /\ ck.norm[1] # NoNorm /\ ck.norm[2] # NoNorm)
    => ck.norm[2].full = ck.norm[1].full

\* C9 witness: a fragment that changed the jar has been merged twice and both
\* results normalised.
C9_Witness ==
  /\ ck.mode = "merge"
  /\ ck.jar # <<>>
  /\ ck.norm[2] # NoNorm
  /\ ck.norm[2].in = ck.jar \o <<";", " ">> \o ck.frag \o <<";", " ">> \o ck.frag
  /\ ck.norm[1].full # ck.norm[0].full

\* C10 as stated: any permutation of the segments normalises to the same jar.
C10_AnyPermutationSameJar ==
  (ck.norm[0] # NoNorm /\ ck.permNorm # NoNorm) => ck.permNorm.full = ck.norm[0].full

\* no cookie name of the input occurs with two different non-empty values
SingleValued(cookie) ==
  LET segs == Parts(cookie)
  IN \A j, k \in 1..Len(segs) :
       (/\ IsCookieSeg(segs[j]) /\ IsCookieSeg(segs[k])
        /\ SegName(segs[j]) = SegName(segs[k])
        /\ SegValue(segs[j]) # <<>> /\ SegValue(segs[k]) # <<>>)
       => SegValue(segs[j]) = SegValue(segs[k])

\* C10 amended: when no cookie name occurs with two different non-empty values,
\* any permutation of the segments normalises to the same jar, sorted by key;
\* the earlier normalizeCookie, which sorts the segments themselves, gives the
\* same output for every permutation of every input.
C10_PermutationSameJarWhenSingleValued ==
  (ck.norm[0] # NoNorm /\ ck.permNorm # NoNorm) =>
    /\ SingleValued(ck.norm[0].in) => ck.permNorm.full = ck.norm[0].full
    /\ ck.permNorm.sort = ck.norm[0].sort

\* C10 witness: two cookies given out of key order and in the other order
\* normalise to the same jar of two entries.
C10_Witness ==
  /\ ck.norm[0] # NoNorm /\ ck.permNorm # NoNorm
  /\ ck.permNorm.in # ck.norm[0].in
  /\ SingleValued(ck.norm[0].in)
  /\ ck.norm[0].in = <<"b","=","1",";"," ","a","=","1">>
  /\ ck.permNorm.full = <<"a","=","1",";"," ","b","=","1">>

(***************************************************************************)
(* One call of the fetch client against an upstream whose redirect chain   *)
(* is fixed when the call is made: the first up.chainLen requests are      *)
(* answered 3xx with a Location header, the next one with the terminal     *)
(* response (status up.terminal; a terminal 3xx carries no Location).      *)
(* up.delivered holds the name=value pairs of the Set-Cookie lines sent.   *)
(***************************************************************************)
\* maxRedirects defaults to 10 (route.ts, api.ts) or 5 (the in-memory variants)
DEFAULT_MAX_REDIRECTS == 10
SHORT_MAX_REDIRECTS == 5
\* the download-link HEAD of the in-memory variant passes 3
DLINK_MAX_REDIRECTS == 3

\* the values of maxRedirects: the ones the handlers pass, and 0 and 1
MaxRedirectsArgs == {0, 1, DLINK_MAX_REDIRECTS, SHORT_MAX_REDIRECTS, DEFAULT_MAX_REDIRECTS}

Variants == {"pair", "pairOnce", "raw"}

StartUrl == <<"h","t","t","p",":","/","/","t","/","s","/","1">>

\* Location headers: an absolute URL, a path relative to the current URL, and
\* absolute URLs of other schemes, one of them beginning with "http"
Locations == { <<"h","t","t","p",":","/","/","c","/","f">>, <<"/","s","/","2">>,
               <<"f","t","p",":","/","/","c","/","f">>, <<"h","t","t","p","x",":","/","/","c","/","f">> }

\* the Set-Cookie header lines of a response: one cookie with an attribute,
\* one without, and two cookies on two lines
SetCookieLines == { << <<"a","=","1",";"," ","P","a","t","h","=","/">> >>,
                    << <<"b","=","2">> >>,
                    << <<"c","=","3",";"," ","P","a","t","h","=","/">>, <<"d","=","4">> >> }

\* res.headers.get("set-cookie"): the lines' values joined by ", "
HeadersGetSetCookie(lines) == Join(lines, <<",", " ">>)

\* Set-Cookie headers, as the client reads them
SetCookieValues == { HeadersGetSetCookie(lines) : lines \in SetCookieLines }

\* the Cookie header the caller hands in
BaseCookies == { NoHeader, <<"n","=","0">> }

TerminalStatuses == {200, 404, 302}

FInit ==
  /\ CookieIdle
  /\ HandlerIdle
  /\ \E variant \in Variants, max \in MaxRedirectsArgs, base \in BaseCookies,
        chainLen \in 0..MaxChain, terminal \in TerminalStatuses :
       /\ fc = FetchCall(variant, StartUrl, base, "GET", max)
       /\ up = [chainLen |-> chainLen, terminal |-> terminal,
                requests |-> IF LoopGoesOn(0, max) THEN 1 ELSE 0, answered |-> 0,
                redirects |-> 0, setCookies |-> 0, rejected |-> FALSE, delivered |-> {}]

\* the Set-Cookie lines the upstream may still send with a response
SetCookieChoices == {<<>>} \cup (IF up.setCookies < MaxSetCookies THEN SetCookieLines ELSE {})

\* the request in flight is answered as the chain has it; only a request over
\* HTTP reaches the upstream
FRespond ==
  /\ fc.state = "await"
  /\ IsHttpUrl(fc.current)
  /\ \E lines \in SetCookieChoices :
       \E loc \in (IF up.answered < up.chainLen THEN Locations ELSE {NoHeader}) :
         LET sc == IF lines = <<>> THEN NoHeader ELSE HeadersGetSetCookie(lines)
             r == [status |-> IF up.answered < up.chainLen THEN 302 ELSE up.terminal,
                   url |-> NONE, location |-> loc, setCookie |-> sc, body |-> "none", headers |-> <<>>]
             next == FetchResume(fc, r)
         IN /\ fc' = next
            /\ up' = [up EXCEPT !.answered = @ + 1,
                                !.redirects = IF loc # NoHeader THEN @ + 1 ELSE @,
                                !.setCookies = IF sc # NoHeader THEN @ + 1 ELSE @,
                                !.delivered = @ \cup {CookiePair(lines[i]) : i \in 1..Len(lines)},
                                !.requests = IF next.state = "await" THEN @ + 1 ELSE @]
  /\ UNCHANGED <<cookieVars, handlerVars>>

\* the request in flight fails: the network, or fetchWithTimeout's abort
FReject ==
  /\ fc.state = "await"
  /\ \E err \in {"fetch failed"} \cup (IF fc.variant = "pairOnce" THEN {"AbortError"} ELSE {}) :
       fc' = FetchReject(fc, err)
  /\ up' = [up EXCEPT !.rejected = TRUE]
  /\ UNCHANGED <<cookieVars, handlerVars>>

FNext == FRespond \/ FReject

SpecFetch == FInit /\ [][FNext]_vars

\* C1: whenever the upstream's chain has more than maxRedirects redirects, the
\* call never returns a response, never issues more than maxRedirects requests,
\* and once maxRedirects requests were answered it has thrown 'Too many
\* redirects' with no request left in flight.
C1_TooManyRedirects ==
  up.chainLen > fc.max =>
    /\ fc.state # "return"
    /\ up.requests <= fc.max
    /\ (up.answered >= fc.max /\ ~up.rejected) =>
         (fc.state = "throw" /\ fc.error = TooManyRedirects)

\* a chain longer than a positive maxRedirects, followed to the throw
C1_Witness ==
  /\ up.chainLen > fc.max
  /\ fc.max = DEFAULT_MAX_REDIRECTS
  /\ up.redirects = fc.max
  /\ up.requests = fc.max
  /\ fc.state = "throw"
  /\ fc.error = TooManyRedirects

\* the call is over and every request it issued was answered
CallAnswered == fc.state \in {"return", "throw"} /\ ~up.rejected

\* the call returned the upstream's terminal response, after one request per
\* redirect and one more
ReturnedTerminal ==
  /\ fc.state = "return"
  /\ fc.res.status = up.terminal
  /\ fc.res.location = NoHeader
  /\ up.redirects = up.chainLen
  /\ up.requests = up.chainLen + 1

\* C2 as stated: a chain of n <= maxRedirects redirects followed by a terminal
\* response ends with that terminal response returned.
C2_ChainWithinLimitReturns ==
  (up.chainLen <= fc.max /\ CallAnswered) => ReturnedTerminal

\* C2: a chain of n < maxRedirects redirects followed by a terminal response
\* ends with that terminal response returned, after n + 1 requests; a chain of
\* exactly maxRedirects redirects ends in 'Too many redirects'.
C2_ChainBelowLimitReturns ==
  /\ (up.chainLen < fc.max /\ CallAnswered) => ReturnedTerminal
  /\ (up.chainLen = fc.max /\ CallAnswered) =>
       (fc.state = "throw" /\ fc.error = TooManyRedirects)

\* four redirects under a limit of five, and the terminal response returned
C2_Witness ==
  /\ fc.max = SHORT_MAX_REDIRECTS
  /\ up.chainLen = fc.max - 1
  /\ up.redirects = up.chainLen
  /\ ReturnedTerminal
  /\ fc.res.status = 200

(***************************************************************************)
(* The share identifier of a URL.                                          *)
(***************************************************************************)
\* the part of a "name=value" query item before and after the first '='
ItemName(item) == IF IndexOfChar(item, "=") = -1 THEN item ELSE Slice(item, 0, IndexOfChar(item, "="))

ItemValue(item) == IF IndexOfChar(item, "=") = -1 THEN <<>> ELSE Slice(item, IndexOfChar(item, "=") + 1, Len(item))

\* url.searchParams.get(name): the value of the first item of that name, NONE for null
SearchParamGet(url, name) ==
  LET items == Split(UrlQuery(url), "&")
      found == {i \in 1..Len(items) : ItemName(items[i]) = name}
  IN IF found = {} THEN NONE
     ELSE ItemValue(items[CHOOSE i \in found : \A j \in found : i <= j])

\* pathname.match(/^\/s\/([^/?]+)/)?.[1], NONE for undefined
PathSurl(pathname) ==
  IF ~StartsWith(pathname, <<"/","s","/">>) THEN NONE
  ELSE LET rest == Slice(pathname, 3, Len(pathname))
           seg == IF IndexOfChar(rest, "/") = -1 THEN rest ELSE Slice(rest, 0, IndexOfChar(rest, "/"))
       IN IF seg = <<>> THEN NONE ELSE seg

\* searchParams.get("surl") || pathname.match(...)?.[1]
SurlOf(url) ==
  LET q == SearchParamGet(url, <<"s","u","r","l">>)
  IN IF q # NONE /\ q # <<>> THEN q ELSE PathSurl(UrlPathname(url))

(***************************************************************************)
(* What the handlers' specifications share: the requests, the upstream's   *)
(* answers, the clock.                                                     *)
(***************************************************************************)
\* share links: one with the identifier in its path, one with none
ShareLinks == { <<"h","t","t","p",":","/","/","t","/","s","/","1">>, <<"h","t","t","p",":","/","/","t","/","x">> }

\* the page the token is read from, the list API, the file's dlink
MainUrl == <<"h","t","t","p",":","/","/","t","/","m","a","i","n">>
ListApiUrl == <<"h","t","t","p",":","/","/","t","/","l","i","s","t">>
DlinkUrl == <<"h","t","t","p",":","/","/","t","/","f">>

\* what the upstream sends the handlers: Location headers (an absolute URL, and
\* a relative one that carries a share identifier) and a Set-Cookie header
HandlerLocations == { <<"h","t","t","p",":","/","/","t","/","f">>, <<"/","s","/","2">> }
HandlerSetCookies == { <<"a","=","1",";"," ","P","a","t","h","=","/">> }

\* the body of a terminal response, as far as the handlers look at it
BodiesOf(pc) ==
  CASE pc \in {"main", "page"} -> {"token", "notoken"}
    [] pc = "list" -> {"file", "nodlink", "empty", "invalid"}
    [] pc = "template" -> {"notemplate", "nojstoken", "unquoted", "nobdstoken", "token"}
    [] pc = "info" -> {"sign", "nosign", "invalid"}
    [] pc = "download" -> {"file", "nolist", "empty", "invalid"}
    [] OTHER -> {"none"}

\* the Set-Cookie headers the upstream may still send the run
HandlerSetCookieChoices ==
  {NoHeader} \cup (IF h.setCookies < MaxSetCookies THEN HandlerSetCookies ELSE {})

\* Headers.set: names are kept in lower case
HeadersSet(headers, name, value) == MapSetKey(headers, ToLowerCase(name), value)

\* the names of the headers the proxies deal with
ContentPrefix == <<"c","o","n","t","e","n","t">>
AcceptRanges == <<"a","c","c","e","p","t","-","r","a","n","g","e","s">>
ContentType == <<"c","o","n","t","e","n","t","-","t","y","p","e">>
SetCookieName == <<"s","e","t","-","c","o","o","k","i","e">>
ServerName == <<"s","e","r","v","e","r">>
Contentx == <<"c","o","n","t","e","n","t","x">>
AccessControlAllowOrigin ==
  <<"A","c","c","e","s","s","-","C","o","n","t","r","o","l","-","A","l","l","o","w","-","O","r","i","g","i","n">>
AccessControlAllowMethods ==
  <<"A","c","c","e","s","s","-","C","o","n","t","r","o","l","-","A","l","l","o","w","-","M","e","t","h","o","d","s">>
AccessControlExposeHeaders ==
  <<"A","c","c","e","s","s","-","C","o","n","t","r","o","l","-","E","x","p","o","s","e","-","H","e","a","d","e","r","s">>

\* the headers of the download link's answers, the way Headers.forEach hands
\* them out (names in lower case): none; those of a file; those and more
FileHeaders == HeadersSet(HeadersSet(<<>>, ContentType, "video/mp4"), AcceptRanges, "bytes")

UpstreamHeaders ==
  { <<>>, FileHeaders,
    HeadersSet(HeadersSet(HeadersSet(FileHeaders, ServerName, "nginx"), Contentx, "1"), SetCookieName, "a=1") }

\* the answers the upstream may give to the request in flight: a redirect (3xx
\* with a Location header), or a terminal response with one of the statuses
\* and one of the bodies. Of the answers to the negotiation's requests the
\* handlers read the status only to tell a redirect, so these come as 200 or
\* as a 302 without Location.
Answers(statuses, locations) ==
  { [status |-> 302, url |-> NONE, location |-> loc, setCookie |-> sc, body |-> "none", headers |-> <<>>] :
      loc \in locations, sc \in HandlerSetCookieChoices }
  \cup
  { [status |-> st, url |-> NONE, location |-> NoHeader, setCookie |-> sc, body |-> b, headers |-> <<>>] :
      st \in statuses, sc \in HandlerSetCookieChoices, b \in BodiesOf(h.pc) }

\* the run after an answer r was received while it awaited a fetch
Received(run, r) ==
  [run EXCEPT !.setCookies = IF r.setCookie # NoHeader THEN @ + 1 ELSE @,
              !.delivered = IF r.setCookie # NoHeader /\ run.pc = "page"
                            THEN @ \cup {CookiePair(r.setCookie)} ELSE @,
              !.got = IF r.body # "none" THEN MapSetKey(@, run.pc, r.body) ELSE @,
              !.proxyStatus = IF run.pc = "proxy" /\ ~FollowsRedirect(r) THEN r.status ELSE @,
              !.waited = 0]

\* the run, once it has sent the first request of the fetch `pc`
Sending(run, pc, call, base) ==
  [run EXCEPT !.pc = pc, !.issued = @ \cup {pc}, !.order = Append(@, pc),
              !.sent = MapSetKey(@, pc, RequestOf(call, base).cookie)]

\* the run ends with a response
Reply(run, statusCode, error, location, data) ==
  [run EXCEPT !.pc = "done",
              !.response = [statusCode |-> statusCode, error |-> error,
                            location |-> location, data |-> data, headers |-> <<>>]]

\* an exception is raised in the run
Thrown(run, error) == [run EXCEPT !.threw = error]

\* netlify/functions: the time after which fetchWithTimeout aborts a request
FETCH_TIMEOUT == 10000

\* the request in flight has been waited for for another FETCH_TIMEOUT
Waited(run) == [run EXCEPT !.waited = @ + FETCH_TIMEOUT]

\* a new run starts from the locals of none
FreshRun(n, cache) == [NoRun EXCEPT !.n = n, !.cacheWas = cache]

\* time passes, by a cache lifetime or a millisecond more. The handlers read
\* the clock when they look the cache up and when they store, so the time that
\* passes during a run is let pass while it awaits the first answer of its
\* last fetch.
Tick(ttl) ==
  /\ clock.ticks < MaxTicks
  /\ h.pc \in {"idle", "done"} \/ (h.pc = "dlink" /\ fc.i = 0)
  /\ \E d \in {ttl, ttl + 1} : clock' = [now |-> clock.now + d, ticks |-> clock.ticks + 1]
  /\ UNCHANGED <<h, env, globalCache, fc, cookieVars, up, edgeCache, kv, bg, sz, tk>>

(***************************************************************************)
(* netlify/functions/terabox.js: the handler with the in-memory cache.     *)
(***************************************************************************)
MAX_REDIRECTS == 10
CACHE_TTL == 10 * 60 * 1000

\* the entry is taken as expired from the very millisecond of its expiry
\* (Date.now() >= hit.expire)
getCacheExpiredAtExpiry(cache, key, now) ==
  IF key \notin DOMAIN cache THEN NoData
  ELSE IF now >= cache[key].expire THEN NoData
  ELSE cache[key].data

\* getCache's result, NoData for null
getCache(cache, key, now) ==
  IF key \notin DOMAIN cache THEN NoData
  ELSE IF now > cache[key].expire THEN NoData
  ELSE cache[key].data

\* a hit renews the entry's lifetime
CacheAfterGetSliding(cache, key, now) ==
  IF key \notin DOMAIN cache THEN cache
  ELSE IF now > cache[key].expire THEN MapDeleteKey(cache, key)
  ELSE [cache EXCEPT ![key].expire = now + CACHE_TTL]

\* the cache after getCache: an expired entry is deleted
CacheAfterGet(cache, key, now) ==
  IF key \in DOMAIN cache /\ now > cache[key].expire THEN MapDeleteKey(cache, key) ELSE cache

\* the map is left with the new entry alone
setCacheAlone(cache, key, data, now) == [k \in {key} |-> [data |-> data, expire |-> now + CACHE_TTL]]

\* an entry that is there is kept
setCacheFirstWins(cache, key, data, now) ==
  IF key \in DOMAIN cache THEN cache
  ELSE MapSetKey(cache, key, [data |-> data, expire |-> now + CACHE_TTL])

setCache(cache, key, data, now) == MapSetKey(cache, key, [data |-> data, expire |-> now + CACHE_TTL])

\* the first request of a fetch of the handler
NCall(url, method) == FetchCall("pairOnce", url, env.COOKIE, method, MAX_REDIRECTS)

\* the lookup serves only a request that does not ask for the download
NServesCached(cached, download) == cached # NoData /\ ~download

NInit ==
  /\ CookieIdle
  /\ bg = NoBg
  /\ sz = NoSize
  /\ tk = NoToken
  /\ up = NoUpstream
  /\ fc = NoCall
  /\ h = NoRun
  /\ env = [COOKIE |-> <<"n","=","0">>, edge |-> FALSE]
  /\ edgeCache = <<>>
  /\ kv = NONE
  /\ globalCache = <<>>
  /\ clock = [now |-> 0, ticks |-> 0]

\* lines 84-115: the parameters, the cache lookup, the first request for the
\* token page; params.data is one of `links`
NStarts(links) ==
  /\ h.pc \in {"idle", "done"}
  /\ h.n + bg.h.n < MaxRuns
  /\ \E shareUrl \in links, download \in BOOLEAN :
       LET run == [FreshRun(h.n + 1, globalCache) EXCEPT !.shareUrl = shareUrl, !.download = download]
           cached == getCache(globalCache, shareUrl, clock.now)
           cache1 == CacheAfterGet(globalCache, shareUrl, clock.now)
           looked == [run EXCEPT !.hit = cached # NoData, !.evicted = cache1 # globalCache,
                                 !.lookedAt = clock.now]
       IN IF shareUrl = <<>>
          THEN /\ h' = Reply(run, 400, "Missing data", NONE, NoData)
               /\ UNCHANGED <<fc, globalCache>>
          ELSE /\ globalCache' = cache1
               /\ IF NServesCached(cached, download)
                  THEN /\ h' = Reply(looked, 200, "none", NONE, cached)
                       /\ UNCHANGED fc
                  ELSE /\ fc' = NCall(MainUrl, "GET")
                       /\ h' = Sending(looked, "main", NCall(MainUrl, "GET"), env.COOKIE)
  /\ UNCHANGED <<env, clock, cookieVars, up, edgeCache, kv, bg, sz, tk>>

NStart == NStarts(ShareLinks \cup {<<>>})

\* setCache(shareUrl, result) comes too early: once the file list is there
NStoresAfterList(pc) == pc \in {"list", "dlink"}

\* setCache(shareUrl, result) is reached when the download-link HEAD has returned
NStoresAfter(pc) == pc = "dlink"

\* the handler from the return of a fetch to its next await or its response;
\* data is the result as far as it is known
NAfter(run, res) ==
  CASE run.pc = "main" ->
         IF res.body # "token"
         THEN [run |-> Reply(run, 500, "jsToken not found", NONE, NoData), call |-> NoCall, data |-> NoData]
         ELSE [run |-> Sending([run EXCEPT !.jsToken = TRUE], "page", NCall(run.shareUrl, "GET"), env.COOKIE),
               call |-> NCall(run.shareUrl, "GET"), data |-> NoData]
    [] run.pc = "page" ->
         IF SurlOf(res.url) = NONE
         THEN [run |-> Reply(run, 500, "surl not found", NONE, NoData), call |-> NoCall, data |-> NoData]
         ELSE [run |-> Sending([run EXCEPT !.surl = SurlOf(res.url)], "list", NCall(ListApiUrl, "GET"), env.COOKIE),
               call |-> NCall(ListApiUrl, "GET"), data |-> NoData]
    [] run.pc = "list" ->
         IF res.body = "invalid"
         THEN [run |-> Reply(Thrown(run, "Unexpected token"), 500, "Unexpected token", NONE, NoData), call |-> NoCall, data |-> NoData]
         ELSE IF res.body # "file"
         THEN [run |-> Reply(run, 404, "File not found", NONE, NoData), call |-> NoCall, data |-> NoData]
         ELSE [run |-> Sending([run EXCEPT !.dlink = DlinkUrl], "dlink", NCall(DlinkUrl, "HEAD"), env.COOKIE),
               call |-> NCall(DlinkUrl, "HEAD"), data |-> [link |-> DlinkUrl, direct_link |-> NONE]]
    [] run.pc = "dlink" ->
         LET result == [link |-> run.dlink, direct_link |-> res.url]
         IN [run |-> IF run.download
                     THEN Reply(run, 302, "none", res.url, NoData)
                     ELSE Reply(run, 200, "none", NONE, result),
             call |-> NoCall, data |-> result]

\* the catch clause: AbortError reads "Timeout"
NCaught(run, error) ==
  Reply(Thrown(run, error), 500, IF error = "AbortError" THEN "Timeout" ELSE error, NONE, NoData)

\* the request in flight is answered, by one of `answers`
NResponds(answers) ==
  /\ h.pc \in {"main", "page", "list", "dlink"}
  /\ fc.state = "await"
  /\ \E r \in answers :
       LET call == FetchResume(fc, r)
           run == Received(h, r)
       IN CASE call.state = "await" ->
                 /\ fc' = call /\ h' = run /\ UNCHANGED globalCache
            [] call.state = "throw" ->
                 /\ fc' = NoCall /\ h' = NCaught(run, call.error) /\ UNCHANGED globalCache
            [] call.state = "return" ->
                 LET after == NAfter(run, call.res)
                     stores == NStoresAfter(run.pc) /\ after.data # NoData
                 IN /\ fc' = after.call
                    /\ h' = [after.run EXCEPT !.wrote = @ \/ stores]
                    /\ globalCache' = IF stores
                                      THEN setCache(globalCache, run.shareUrl, after.data, clock.now)
                                      ELSE globalCache
  /\ UNCHANGED <<env, clock, cookieVars, up, edgeCache, kv, bg, sz, tk>>

NRespond == NResponds(Answers({200, 302}, HandlerLocations))

\* the request in flight fails or is aborted by the timeout
NReject ==
  /\ h.pc \in {"main", "page", "list", "dlink"}
  /\ fc.state = "await"
  /\ \E err \in {"fetch failed", "AbortError"} :
       /\ h' = NCaught(h, FetchReject(fc, err).error)
       /\ fc' = NoCall
  /\ UNCHANGED <<env, globalCache, clock, cookieVars, up, edgeCache, kv, bg, sz, tk>>

NTick == Tick(CACHE_TTL)

NNext == NStart \/ NRespond \/ NReject \/ NTick

SpecNetlify == NInit /\ [][NNext]_vars

\* the request in flight is answered at once: no redirect, no Set-Cookie
NRespondDirectly == NResponds({r \in Answers({200}, {}) : r.setCookie = NoHeader})

\* one share link, as it is and with a blank before it
PaddedLinks == { <<"h","t","t","p",":","/","/","t","/","s","/","1">>,
                 <<" ","h","t","t","p",":","/","/","t","/","s","/","1">> }

NStartPadded == NStarts(PaddedLinks)

NPaddedNext == NStartPadded \/ NRespondDirectly \/ NReject \/ NTick

SpecPadded == NInit /\ [][NPaddedNext]_vars

\* two invocations share the process and its globalCache: while one awaits a
\* fetch, or before it has begun, the event loop runs the other
NSwitch ==
  /\ h.pc \notin {"idle", "done"} \/ bg.h.pc \notin {"idle", "done"}
  /\ h' = bg.h
  /\ fc' = bg.fc
  /\ bg' = [h |-> h, fc |-> fc]
  /\ UNCHANGED <<env, globalCache, clock, cookieVars, up, edgeCache, kv, sz, tk>>

NConcurrentNext == NStart \/ NRespondDirectly \/ NReject \/ NTick \/ NSwitch

SpecConcurrent == NInit /\ [][NConcurrentNext]_vars

\* C3 as stated: a request whose cache lookup finds the live entry of an earlier
\* successful resolution of the same link sends no request upstream, whatever
\* its mode.
C3_CacheHitIssuesNoRequest == h.hit => h.issued = {}

\* the run has ended with an error response
EndedInError == h.pc = "done" /\ h.response.statusCode >= 400

\* the negotiation of the run succeeded in every step
EveryStepSucceeded ==
  /\ h.issued = {"main", "page", "list", "dlink"}
  /\ h.jsToken
  /\ h.surl # NONE
  /\ h.dlink # NONE
  /\ h.pc = "done"
  /\ h.response.statusCode \in {200, 302}

Requests ==
  { [proxy |-> FALSE, download |-> FALSE, range |-> NoHeader],
    [proxy |-> FALSE, download |-> TRUE, range |-> NoHeader],
    [proxy |-> TRUE, download |-> FALSE, range |-> NoHeader],
    [proxy |-> TRUE, download |-> FALSE, range |-> <<"b","y","t","e","s","=","0","-">>],
    [proxy |-> TRUE, download |-> TRUE, range |-> NoHeader] }

\* new Request(shareUrl).url: the URL serialised, an empty path as "/"
RequestUrl(u) ==
  UrlOrigin(u) \o UrlPathname(u) \o (IF IndexOfChar(u, "?") = -1 THEN <<>> ELSE <<"?">> \o UrlQuery(u))

\* getFromCache: null without caches.default or without a match
getFromCache(edge, cache, key) == IF edge /\ key \in DOMAIN cache THEN cache[key] ELSE NoData

\* putToCache: nothing without caches.default
putToCache(edge, cache, key, value) == IF edge THEN MapSetKey(cache, key, value) ELSE cache

\* each fetch of the handler starts from the handler's `headers`, whose Cookie
\* is process.env.COOKIE
RCall(url, method) == FetchCall("pair", url, env.COOKIE, method, DEFAULT_MAX_REDIRECTS)

\* proxyDownload: a new Headers with the inbound Range, and one fetch
RProxy(run, url) ==
  [run EXCEPT !.pc = "proxy", !.issued = @ \cup {"proxy"}, !.order = Append(@, "proxy"),
              !.proxyReq = [url |-> url, cookie |-> NoHeader, range |-> run.range]]

RInit ==
  /\ CookieIdle
  /\ bg = NoBg
  /\ sz = NoSize
  /\ tk = NoToken
  /\ up = NoUpstream
  /\ fc = NoCall
  /\ h = NoRun
  /\ env \in {[COOKIE |-> <<"n","=","0">>, edge |-> TRUE], [COOKIE |-> NoHeader, edge |-> FALSE]}
  /\ globalCache = <<>>
  /\ clock = [now |-> 0, ticks |-> 0]
  /\ edgeCache = <<>>
  /\ kv = NONE

\* lines 125-147: the parameters, the cache lookup, and the cached answer or
\* the first request for the share page
RStart ==
  /\ h.pc \in {"idle", "done"}
  /\ h.n < MaxRuns
  /\ \E shareUrl \in ShareLinks \cup {<<>>}, req \in Requests :
       LET run == [FreshRun(h.n + 1, edgeCache) EXCEPT !.shareUrl = shareUrl, !.proxy = req.proxy,
                     !.download = req.download, !.range = req.range, !.cookie = env.COOKIE]
       IN IF shareUrl = <<>>
          THEN /\ h' = Reply(run, 400, "Missing data", NONE, NoData)
               /\ UNCHANGED fc
          ELSE LET cached == getFromCache(env.edge, edgeCache, RequestUrl(shareUrl))
                   hit == [run EXCEPT !.hit = TRUE]
               IN IF cached # NoData
                  THEN /\ h' = IF req.proxy THEN RProxy(hit, cached.direct_link)
                               ELSE IF req.download
                               THEN Reply(hit, 302, "none", cached.direct_link, NoData)
                               ELSE Reply(hit, 200, "none", NONE, cached)
                       /\ UNCHANGED fc
                  ELSE /\ fc' = RCall(shareUrl, "GET")
                       /\ h' = Sending(run, "page", RCall(shareUrl, "GET"), env.COOKIE)
  /\ UNCHANGED <<env, globalCache, clock, edgeCache, kv, cookieVars, up, bg, sz, tk>>

\* the handler from the return of a fetch to its next await or its response
RAfter(run, res) ==
  CASE run.pc = "page" ->
         IF res.body # "token"
         THEN [run |-> Reply(run, 400, "Missing jsToken", NONE, NoData), call |-> NoCall, data |-> NoData]
         ELSE IF SurlOf(res.url) = NONE
         THEN [run |-> Reply([run EXCEPT !.jsToken = TRUE], 400, "Missing surl", NONE, NoData),
               call |-> NoCall, data |-> NoData]
         ELSE [run |-> Sending([run EXCEPT !.jsToken = TRUE, !.surl = SurlOf(res.url)], "list",
                               RCall(ListApiUrl, "GET"), env.COOKIE),
               call |-> RCall(ListApiUrl, "GET"), data |-> NoData]
    [] run.pc = "list" ->
         IF res.body = "invalid"
         THEN [run |-> Reply(Thrown(run, "Unexpected token"), 500, "Unexpected token", NONE, NoData), call |-> NoCall, data |-> NoData]
         ELSE IF res.body # "file"
         THEN [run |-> Reply(run, 400, "File not found", NONE, NoData), call |-> NoCall, data |-> NoData]
         ELSE [run |-> Sending([run EXCEPT !.dlink = DlinkUrl], "dlink", RCall(DlinkUrl, "HEAD"), env.COOKIE),
               call |-> RCall(DlinkUrl, "HEAD"), data |-> NoData]
    [] run.pc = "dlink" ->
         LET result == [link |-> run.dlink, direct_link |-> res.url]
         IN IF res.url = <<>>
            THEN [run |-> Reply(run, 500, "Direct link failed", NONE, NoData), call |-> NoCall, data |-> NoData]
            ELSE [run |-> IF run.proxy THEN RProxy(run, res.url)
                          ELSE IF run.download THEN Reply(run, 302, "none", res.url, NoData)
                          ELSE Reply(run, 200, "none", NONE, result),
                  call |-> NoCall, data |-> result]

\* the request in flight of a fetchFollowWithCookies is answered
RRespond ==
  /\ h.pc \in {"page", "list", "dlink"}
  /\ fc.state = "await"
  /\ \E r \in Answers({200, 302}, HandlerLocations) :
       LET call == FetchResume(fc, r)
           run == Received(h, r)
       IN CASE call.state = "await" ->
                 /\ fc' = call /\ h' = run /\ UNCHANGED edgeCache
            [] call.state = "throw" ->
                 /\ fc' = NoCall
                 /\ h' = Reply(Thrown(run, call.error), 500, call.error, NONE, NoData)
                 /\ UNCHANGED edgeCache
            [] call.state = "return" ->
                 LET after == RAfter(run, call.res)
                     stores == run.pc = "dlink" /\ after.data # NoData /\ env.edge
                 IN /\ fc' = after.call
                    /\ h' = [after.run EXCEPT !.wrote = @ \/ stores]
                    /\ edgeCache' = IF run.pc = "dlink" /\ after.data # NoData
                                    THEN putToCache(env.edge, edgeCache, RequestUrl(run.shareUrl), after.data)
                                    ELSE edgeCache
  /\ UNCHANGED <<env, globalCache, clock, kv, cookieVars, up, bg, sz, tk>>

\* the request in flight of a fetchFollowWithCookies fails: the catch clause
RReject ==
  /\ h.pc \in {"page", "list", "dlink"}
  /\ fc.state = "await"
  /\ h' = Reply(Thrown(h, "fetch failed"), 500, FetchReject(fc, "fetch failed").error, NONE, NoData)
  /\ fc' = NoCall
  /\ UNCHANGED <<env, globalCache, clock, edgeCache, kv, cookieVars, up, bg, sz, tk>>

\* lines 218-225: every header of the upstream, and the proxy's own
RProxyHeaders(upstream) ==
  HeadersSet(HeadersSet(HeadersSet(upstream, AccessControlAllowOrigin, "*"),
                        AccessControlAllowMethods, "GET, OPTIONS"),
             AccessControlExposeHeaders, "*")

\* proxyDownload's fetch follows redirects itself; its status is passed on
RProxyRespond ==
  /\ h.pc = "proxy"
  /\ fc = NoCall
  /\ \E status \in {200, 206, 404}, upstream \in UpstreamHeaders :
       h' = [Reply(h, status, "none", NONE, NoData) EXCEPT !.proxyStatus = status,
                                                           !.response.headers = RProxyHeaders(upstream)]
  /\ UNCHANGED <<fc, env, globalCache, clock, edgeCache, kv, cookieVars, up, bg, sz, tk>>

\* proxyDownload's fetch fails: GET returns the promise without awaiting it, so
\* its catch clause is not entered and the rejection leaves the handler
RProxyReject ==
  /\ h.pc = "proxy"
  /\ fc = NoCall
  /\ h' = Reply(Thrown(h, "fetch failed"), 500, "uncaught: fetch failed", NONE, NoData)
  /\ UNCHANGED <<fc, env, globalCache, clock, edgeCache, kv, cookieVars, up, bg, sz, tk>>

\* the platform drops an entry: its max-age is over, or it is evicted
REvict ==
  /\ h.pc \in {"idle", "done"}
  /\ \E key \in DOMAIN edgeCache : edgeCache' = MapDeleteKey(edgeCache, key)
  /\ UNCHANGED <<h, fc, env, globalCache, clock, kv, cookieVars, up, bg, sz, tk>>

\* time passes while a request is in flight: the fetches of lines 55 and 217
\* are given no signal, and nothing ends the wait
RWait ==
  /\ h.pc \in {"page", "list", "dlink", "proxy"}
  /\ h.waited < MaxWait * FETCH_TIMEOUT
  /\ h' = Waited(h)
  /\ UNCHANGED <<fc, env, globalCache, clock, edgeCache, kv, cookieVars, up, bg, sz, tk>>

RNext == RStart \/ RRespond \/ RReject \/ RProxyRespond \/ RProxyReject \/ REvict \/ RWait

SpecRoute == RInit /\ [][RNext]_vars

\* the name=value pairs of a Cookie header
CookiePairsOf(header) ==
  IF header = NoHeader THEN {}
  ELSE LET segs == Split(header, ";") IN {Trim(segs[i]) : i \in 1..Len(segs)}

\* C6 as stated: every cookie a Set-Cookie header delivered on a hop of the
\* share-page fetch is in the Cookie header of the file-list request and of the
\* download-link request of the same run.
C6_JarThreadedThroughRun ==
  \A pc \in {"list", "dlink"} :
    pc \in DOMAIN h.sent => h.delivered \subseteq CookiePairsOf(h.sent[pc])

(***************************************************************************)
(* functions/api.ts: onRequest with the cookie kept in COOKIE_KV, and      *)
(* proxyDownload.                                                          *)
(***************************************************************************)
\* the query parameters and the Range header of a request
ApiRequests ==
  { [proxy |-> FALSE, download |-> d, nodirectlink |-> n, range |-> NoHeader] : d, n \in BOOLEAN }
  \cup
  { [proxy |-> TRUE, download |-> FALSE, nodirectlink |-> FALSE, range |-> r] : r \in {NoHeader, <<"b","y","t","e","s","=","0","-">>} }

\* share links: the share identifier is read from the query only
ApiLinks == { <<"h","t","t","p",":","/","/","t","/","s","/","1">>, <<"h","t","t","p",":","/","/","t","/","x","?","s","u","r","l","=","1">> }

ApiLocations == { <<"h","t","t","p",":","/","/","t","/","f">>, <<"?","s","u","r","l","=","2">> }

\* fetchFollowWithCookies(url, headers): the handler's headers are sent as they are
ACall(url, cookie) == FetchCall("raw", url, cookie, "GET", DEFAULT_MAX_REDIRECTS)

\* the Cookie of `headers` after a call: headers.set("Cookie", cookieStore)
\* whenever a Set-Cookie came
HeadersAfter(cookie, call) == IF call.cookieStore # <<>> THEN call.cookieStore ELSE cookie

\* proxyDownload(request, file.dlink, headers): the request is sent with the
\* handler's `headers`, to which the inbound Range is added
ProxyRequest(call, cookie, range) ==
  [url |-> call.current, cookie |-> RequestOf(call, cookie).cookie, range |-> range]

\* await fetchFollowWithCookies(url, headers) with nothing to fetch: file.dlink
\* is undefined and fetch rejects
AFetchDlink(run, pc, cookie) ==
  IF run.dlink = NONE
  THEN [run |-> Reply(Thrown(run, "Invalid URL"), 500, "Invalid URL", NONE, NoData), call |-> NoCall]
  ELSE [run |-> Sending(run, pc, ACall(run.dlink, cookie), cookie), call |-> ACall(run.dlink, cookie)]

\* lines 483-511: the response once direct_link is known
AAnswer(run, direct_link) ==
  IF run.download
  THEN IF direct_link = <<>>
       THEN Reply(Thrown(run, "Invalid URL"), 500, "Invalid URL", NONE, NoData)
       ELSE Reply(run, 302, "none", direct_link, NoData)
  ELSE Reply(run, 200, "none", NONE, [link |-> run.dlink, direct_link |-> direct_link])

AInit ==
  /\ CookieIdle
  /\ bg = NoBg
  /\ sz = NoSize
  /\ tk = NoToken
  /\ up = NoUpstream
  /\ fc = NoCall
  /\ h = NoRun
  /\ env = NoEnv
  /\ globalCache = <<>>
  /\ clock = [now |-> 0, ticks |-> 0]
  /\ edgeCache = <<>>
  /\ kv \in {NONE, <<"n","=","0">>}

\* lines 400-428: the parameters, the cookie of COOKIE_KV, the first request
\* for the share page
AStarts(links, requests) ==
  /\ h.pc \in {"idle", "done"}
  /\ h.n + bg.h.n < MaxRuns
  /\ \E link \in links, req \in requests :
       LET oldCookie == IF kv = NONE THEN <<>> ELSE kv
           cookie == IF oldCookie # <<>> THEN oldCookie ELSE NoHeader
           run == [FreshRun(h.n + 1, <<>>) EXCEPT !.shareUrl = link, !.proxy = req.proxy,
                     !.download = req.download, !.nodirectlink = req.nodirectlink,
                     !.range = req.range, !.oldCookie = oldCookie, !.cookie = cookie]
       IN IF link = <<>>
          THEN /\ h' = Reply([run EXCEPT !.oldCookie = <<>>, !.cookie = NoHeader],
                             400, "Missing data", NONE, NoData)
               /\ UNCHANGED fc
          ELSE /\ fc' = ACall(link, cookie)
               /\ h' = Sending(run, "page", ACall(link, cookie), cookie)
  /\ UNCHANGED <<env, globalCache, clock, edgeCache, kv, cookieVars, up, bg, sz, tk>>

AStart == AStarts(ApiLinks \cup {<<>>}, ApiRequests)

\* the stored value and the one put are made one string
KvAfterPutMerged(stored, value) == IF stored = NONE THEN value ELSE AppendCookie(stored, value)

\* line 462: COOKIE_KV.put("cookie", finalCookie) replaces the stored value
KvAfterPut(stored, value) == value

\* lines 461-463: the string written to COOKIE_KV, NONE for none
KvPut(finalCookie, oldCookie) ==
  IF normalizeCookie(finalCookie) # normalizeCookie(oldCookie) THEN finalCookie ELSE NONE

\* lines 178-180: the same with the normalizeCookie of lines 22-29
KvPutSorted(finalCookie, oldCookie) ==
  IF normalizeCookieSort(finalCookie) # normalizeCookieSort(oldCookie) THEN finalCookie ELSE NONE

\* lines 368-371: the upstream's headers that are passed on
AForwards(k) == StartsWith(ToLowerCase(k), ContentPrefix) \/ ToLowerCase(k) = AcceptRanges

\* lines 366-377: outHeaders
AProxyHeaders(upstream) ==
  LET kept == [k \in {x \in DOMAIN upstream : AForwards(x)} |-> upstream[k]]
  IN HeadersSet(HeadersSet(kept, AccessControlAllowOrigin, "*"), AccessControlExposeHeaders, "*")

\* the share page is sent on without a look at the token
AMissingJsTokenUnchecked(html) == FALSE

\* lines 443-444: !findBetween(html, "fn%28%22", "%22%29")
AMissingJsToken(html) == html # "token"

\* the download link is fetched whatever the request says
ASkipsDirectLinkNever(nodirectlink) == FALSE

\* line 483: url.searchParams.has("nodirectlink")
ASkipsDirectLink(nodirectlink) == nodirectlink

\* the handler from the return of a fetch to its next await or its response;
\* written is KvPut of the cookie string the list fetch returned
AAfter(run, res, written) ==
  CASE run.pc = "page" ->
         LET surl == SearchParamGet(res.url, <<"s","u","r","l">>)
         IN IF surl = NONE \/ surl = <<>>
            THEN [run |-> Reply(run, 400, "Missing surl", NONE, NoData), call |-> NoCall, put |-> NONE]
            ELSE IF AMissingJsToken(res.body)
            THEN [run |-> Reply([run EXCEPT !.surl = surl], 400, "Missing jsToken", NONE, NoData),
                  call |-> NoCall, put |-> NONE]
            ELSE [run |-> Sending([run EXCEPT !.surl = surl, !.jsToken = res.body = "token"], "list",
                                  ACall(ListApiUrl, run.cookie), run.cookie),
                  call |-> ACall(ListApiUrl, run.cookie), put |-> NONE]
    [] run.pc = "list" ->
         LET put == written
             file == [run EXCEPT !.dlink = IF res.body = "file" THEN DlinkUrl ELSE NONE]
             next == IF res.body = "invalid"
                     THEN [run |-> Reply(Thrown(run, "Unexpected token"), 500, "Unexpected token", NONE, NoData), call |-> NoCall]
                     ELSE IF res.body = "empty"
                     THEN [run |-> Reply(run, 400, "Empty list", NONE, NoData), call |-> NoCall]
                     ELSE IF run.proxy
                     THEN LET sent == AFetchDlink(file, "proxy", run.cookie)
                          IN [run |-> IF sent.call = NoCall THEN sent.run
                                      ELSE [sent.run EXCEPT !.proxyReq =
                                              ProxyRequest(sent.call, run.cookie, run.range)],
                              call |-> sent.call]
                     ELSE IF ASkipsDirectLink(run.nodirectlink)
                     THEN [run |-> AAnswer(file, <<>>), call |-> NoCall]
                     ELSE AFetchDlink(file, "dlink", run.cookie)
         IN [run |-> next.run, call |-> next.call, put |-> put]
    [] run.pc = "dlink" ->
         [run |-> AAnswer(run, res.url), call |-> NoCall, put |-> NONE]
    [] run.pc = "proxy" ->
         [run |-> IF (res.status >= 200 /\ res.status <= 299) \/ res.status = 206
                  THEN [Reply(run, res.status, "none", NONE, NoData)
                          EXCEPT !.response.headers = AProxyHeaders(res.headers)]
                  ELSE Reply(Thrown(run, "Upstream error"), 500, "Upstream error", NONE, NoData),
          call |-> NoCall, put |-> NONE]

\* the request in flight is answered, with a Location out of `locations` or
\* with none and with a Set-Cookie out of `cookies` or with none; `earlier`
\* tells the handler of lines 113-236, whose normalizeCookie is that of lines
\* 22-29, from the handler of lines 396-519
AResponds(earlier, cookies, locations) ==
  /\ h.pc \in {"page", "list", "dlink", "proxy"}
  /\ fc.state = "await"
  /\ \E sc \in {NoHeader} \cup (IF h.setCookies < MaxSetCookies THEN cookies ELSE {}) :
     \E written \in {IF h.pc # "list" THEN NONE
                     ELSE IF earlier
                     THEN KvPutSorted(MergeSetCookie(fc.variant, fc.cookieStore, sc), h.oldCookie)
                     ELSE KvPut(MergeSetCookie(fc.variant, fc.cookieStore, sc), h.oldCookie)} :
       \E a \in {x \in Answers(IF h.pc = "proxy" THEN {200, 206, 302, 404} ELSE {200, 302},
                                locations) : x.setCookie = NoHeader} :
       \E r \in {[a EXCEPT !.headers = hs, !.setCookie = sc] :
                   hs \in IF h.pc = "proxy" /\ ~FollowsRedirect(a) THEN UpstreamHeaders ELSE {<<>>}} :
       LET call == FetchResume(fc, r)
           run == [Received(h, r) EXCEPT !.cookie = HeadersAfter(h.cookie, call)]
       IN CASE call.state = "await" ->
                 /\ fc' = call /\ h' = run /\ UNCHANGED kv
            [] call.state = "throw" ->
                 /\ fc' = NoCall
                 /\ h' = Reply(Thrown(run, call.error), 500, call.error, NONE, NoData)
                 /\ UNCHANGED kv
            [] call.state = "return" ->
                 LET after == AAfter(run, call.res, written)
                 IN /\ fc' = after.call
                    /\ h' = [after.run EXCEPT !.wrote = @ \/ after.put # NONE]
                    /\ kv' = IF after.put # NONE THEN KvAfterPut(kv, after.put) ELSE kv
  /\ UNCHANGED <<env, globalCache, clock, edgeCache, cookieVars, up, bg, sz, tk>>

ARespond == AResponds(FALSE, HandlerSetCookies, ApiLocations)

\* the request in flight fails: the catch clause
AReject ==
  /\ h.pc \in {"page", "list", "dlink", "proxy"}
  /\ fc.state = "await"
  /\ h' = Reply(Thrown(h, "fetch failed"), 500, FetchReject(fc, "fetch failed").error, NONE, NoData)
  /\ fc' = NoCall
  /\ UNCHANGED <<env, globalCache, clock, edgeCache, kv, cookieVars, up, bg, sz, tk>>

ANext == AStart \/ ARespond \/ AReject

SpecApi == AInit /\ [][ANext]_vars

\* functions/api.ts, lines 1-236
ARespondEarlier == AResponds(TRUE, HandlerSetCookies, ApiLocations)

AEarlierNext == AStart \/ ARespondEarlier \/ AReject

SpecApiEarlier == AInit /\ [][AEarlierNext]_vars

\* C5 as stated: the request proxy mode sends to the download link carries no
\* Cookie header, and of the inbound request's headers only the Range.
C5_ProxyRequestCarriesNoCookie ==
  "proxy" \in h.issued => (h.proxyReq.cookie = NoHeader /\ h.proxyReq.range = h.range)

(***************************************************************************)
(* netlify/functions/download.js: the handler that resolves a file id,     *)
(* with the in-memory cache.                                               *)
(***************************************************************************)
DOWNLOAD_MAX_REDIRECTS == 5
DOWNLOAD_CACHE_TTL == 3600 * 1000

\* the API of step 2 and of step 3
InfoApiUrl == <<"h","t","t","p",":","/","/","t","/","i","n","f","o">>
DownloadApiUrl == <<"h","t","t","p",":","/","/","t","/","d","l">>

\* file ids of the requests
Fids == { <<"7">>, <<"8">> }

\* null
NoTemplateData == [isNull |-> TRUE, jsToken |-> "absent", bdstoken |-> FALSE]

\* getTemplateData: the object parsed from `var templateData = {...};`, or null
\* (no match, or JSON.parse throws). Of the object, jsToken is the
\* field's text as far as getJsToken looks at it ("absent" for undefined,
\* "unquoted" without a %22...%22 pair) and bdstoken whether the field is set.
getTemplateData(text) ==
  CASE text = "notemplate" -> NoTemplateData
    [] text = "nojstoken" -> [isNull |-> FALSE, jsToken |-> "absent", bdstoken |-> TRUE]
    [] text = "unquoted" -> [isNull |-> FALSE, jsToken |-> "unquoted", bdstoken |-> TRUE]
    [] text = "nobdstoken" -> [isNull |-> FALSE, jsToken |-> "quoted", bdstoken |-> FALSE]
    [] OTHER -> [isNull |-> FALSE, jsToken |-> "quoted", bdstoken |-> TRUE]

\* getJsToken: whether a token was found; text.match on undefined throws
getJsToken(text) ==
  IF text = "absent"
  THEN [threw |-> TRUE, error |-> "Cannot read properties of undefined (reading 'match')", token |-> FALSE]
  ELSE [threw |-> FALSE, error |-> "none", token |-> text = "quoted"]

\* the first request of a fetchFollowCookies of the handler
DCall(url) == FetchCall("pairOnce", url, env.COOKIE, "GET", DOWNLOAD_MAX_REDIRECTS)

\* the catch clause: AbortError reads "Timeout"
DCaught(run, error) ==
  Reply(Thrown(run, error), 500, IF error = "AbortError" THEN "Timeout" ELSE error, NONE, NoData)

\* the handler gives up, or goes on with the next fetch
DFail(run, statusCode, error) ==
  [run |-> Reply(run, statusCode, error, NONE, NoData), call |-> NoCall, data |-> NoData]

DThrow(run, error) == [run |-> DCaught(run, error), call |-> NoCall, data |-> NoData]

DFetch(run, pc, url) ==
  [run |-> Sending(run, pc, DCall(url), env.COOKIE), call |-> DCall(url), data |-> NoData]

DInit ==
  /\ CookieIdle
  /\ bg = NoBg
  /\ sz = NoSize
  /\ tk = NoToken
  /\ up = NoUpstream
  /\ fc = NoCall
  /\ h = NoRun
  /\ env \in {[COOKIE |-> <<"n","=","0">>, edge |-> FALSE], [COOKIE |-> NoHeader, edge |-> FALSE]}
  /\ edgeCache = <<>>
  /\ kv = NONE
  /\ globalCache = <<>>
  /\ clock = [now |-> 0, ticks |-> 0]

\* lines 89-135: the parameters, the cache lookup, the first request for the
\* token page
DStart ==
  /\ h.pc \in {"idle", "done"}
  /\ h.n < MaxRuns
  /\ \E fid \in Fids \cup {<<>>}, download \in BOOLEAN :
       LET run == [FreshRun(h.n + 1, globalCache) EXCEPT !.shareUrl = fid, !.download = download]
           cached == getCache(globalCache, fid, clock.now)
           cache1 == CacheAfterGet(globalCache, fid, clock.now)
           looked == [run EXCEPT !.hit = cached # NoData, !.evicted = cache1 # globalCache,
                                 !.lookedAt = clock.now]
       IN IF fid = <<>>
          THEN /\ h' = Reply(run, 400, "Missing fid", NONE, NoData)
               /\ UNCHANGED <<fc, globalCache>>
          ELSE /\ globalCache' = cache1
               /\ IF cached # NoData
                  THEN /\ h' = IF download
                               THEN Reply(looked, 302, "none", cached.direct_link, NoData)
                               ELSE Reply(looked, 200, "none", NONE, cached)
                       /\ UNCHANGED fc
                  ELSE /\ fc' = DCall(MainUrl)
                       /\ h' = Sending(looked, "template", DCall(MainUrl), env.COOKIE)
  /\ UNCHANGED <<env, clock, cookieVars, up, edgeCache, kv, bg, sz, tk>>

\* line 138: getJsToken(templateData.jsToken); the property of null throws
DTokenOf(templateData) ==
  IF templateData.isNull
  THEN [threw |-> TRUE, error |-> "Cannot read properties of null (reading 'jsToken')", token |-> FALSE]
  ELSE getJsToken(templateData.jsToken)

\* the handler from the return of a fetch to its next await or its response
DAfter(run, res) ==
  CASE run.pc = "template" ->
         LET templateData == getTemplateData(res.body)
             jsToken == DTokenOf(templateData)
         IN IF jsToken.threw THEN DThrow(run, jsToken.error)
            ELSE IF ~jsToken.token THEN DFail(run, 500, "jsToken not found")
            ELSE IF ~templateData.bdstoken THEN DFail([run EXCEPT !.jsToken = TRUE], 500, "bdstoken not found")
            ELSE DFetch([run EXCEPT !.jsToken = TRUE], "info", InfoApiUrl)
    [] run.pc = "info" ->
         IF res.body = "invalid" THEN DThrow(run, "Unexpected token")
         ELSE IF res.body = "nosign" THEN DThrow(run, "s is not a function")
         ELSE DFetch(run, "download", DownloadApiUrl)
    [] run.pc = "download" ->
         IF res.body = "invalid" THEN DThrow(run, "Unexpected token")
         ELSE IF res.body = "nolist" THEN DThrow(run, "Cannot read properties of undefined (reading '0')")
         ELSE IF res.body # "file" THEN DFail(run, 404, "File not found")
         ELSE DFetch([run EXCEPT !.dlink = DlinkUrl], "dlink", DlinkUrl)
    [] run.pc = "dlink" ->
         LET result == [link |-> run.dlink, direct_link |-> res.url]
         IN [run |-> IF run.download
                     THEN Reply(run, 302, "none", res.url, NoData)
                     ELSE Reply(run, 200, "none", NONE, result),
             call |-> NoCall, data |-> result]

\* the request in flight is answered
DRespond ==
  /\ h.pc \in {"template", "info", "download", "dlink"}
  /\ fc.state = "await"
  /\ \E r \in Answers({200, 302}, HandlerLocations) :
       LET call == FetchResume(fc, r)
           run == Received(h, r)
       IN CASE call.state = "await" ->
                 /\ fc' = call /\ h' = run /\ UNCHANGED globalCache
            [] call.state = "throw" ->
                 /\ fc' = NoCall /\ h' = DCaught(run, call.error) /\ UNCHANGED globalCache
            [] call.state = "return" ->
                 LET after == DAfter(run, call.res)
                     stores == run.pc = "dlink"
                 IN /\ fc' = after.call
                    /\ h' = [after.run EXCEPT !.wrote = @ \/ stores]
                    /\ globalCache' = IF stores
                                      THEN MapSetKey(globalCache, run.shareUrl,
                                                     [data |-> after.data,
                                                      expire |-> clock.now + DOWNLOAD_CACHE_TTL])
                                      ELSE globalCache
  /\ UNCHANGED <<env, clock, cookieVars, up, edgeCache, kv, bg, sz, tk>>

\* lines 30-31: the timer of fetchWithTimeout has run for FETCH_TIMEOUT
DTimerDue(waited) == waited >= FETCH_TIMEOUT

\* the request in flight fails, or is aborted by the timer of fetchWithTimeout
DReject ==
  /\ h.pc \in {"template", "info", "download", "dlink"}
  /\ fc.state = "await"
  /\ \E err \in {"fetch failed"} \cup (IF DTimerDue(h.waited) THEN {"AbortError"} ELSE {}) :
       /\ h' = DCaught(h, FetchReject(fc, err).error)
       /\ fc' = NoCall
  /\ UNCHANGED <<env, globalCache, clock, cookieVars, up, edgeCache, kv, bg, sz, tk>>

\* time passes while the request is in flight, until the timer is due
DWait ==
  /\ h.pc \in {"template", "info", "download", "dlink"}
  /\ fc.state = "await"
  /\ ~DTimerDue(h.waited)
  /\ h.waited < MaxWait * FETCH_TIMEOUT
  /\ h' = Waited(h)
  /\ UNCHANGED <<fc, env, globalCache, clock, cookieVars, up, edgeCache, kv, bg, sz, tk>>

\* Date.now() advances by the lifetime of an entry, or a millisecond more
DTick == Tick(DOWNLOAD_CACHE_TTL)

DNext == DStart \/ DRespond \/ DReject \/ DWait \/ DTick

SpecDownload == DInit /\ [][DNext]_vars

\* the bodies of the token page that hold none of the token patterns
NoTokenBodies == {"notoken", "notemplate"}

\* the errors of the explicit check for the token
MissingTokenErrors == {"Missing jsToken", "jsToken not found"}

\* C11 as stated: a run whose token page holds none of the recognised token
\* patterns ends with the missing-token error response of the explicit check,
\* never through a thrown exception, and requests nothing more upstream.
C11_MissingTokenIsReported ==
  \A pc \in {"main", "page", "template"} :
    (h.pc = "done" /\ pc \in DOMAIN h.got /\ h.got[pc] \in NoTokenBodies) =>
      /\ h.response.error \in MissingTokenErrors
      /\ h.order[Len(h.order)] = pc


\* s is the beginning of t
IsPrefix(s, t) == Len(s) <= Len(t) /\ \A i \in 1..Len(s) : s[i] = t[i]

\* the fetches of a resolution in their order: the share page (after the
\* token page, where the token is on a page of its own), the file list, the
\* download link, fetched for its URL or by the proxy
StepOrders ==
  { <<"page", "list", "dlink">>, <<"page", "list", "proxy">>,
    <<"main", "page", "list", "dlink">> }

\* the fetch whose body the token is read from
TokenPage == IF "main" \in h.issued THEN "main" ELSE "page"

\* the fetches of the run so far are in order and had what they need
StepsInOrder ==
  /\ \E t \in StepOrders : IsPrefix(h.order, t)
  /\ "list" \in h.issued =>
       /\ h.jsToken /\ h.surl # NONE /\ h.surl # <<>>
       /\ TokenPage \in DOMAIN h.got /\ h.got[TokenPage] = "token"
  /\ (h.issued \cap {"dlink", "proxy"} # {}) =>
       /\ "list" \in DOMAIN h.got /\ h.got["list"] = "file"
       /\ h.dlink # NONE
  /\ h.pc = "done" => fc = NoCall

\* C12: the fetches of a run are started in the order share page, file list,
\* download link, each at most once; the file list is requested only with a
\* token and a share identifier, the download link only when the list held a
\* first file; once a run has answered (with an error, or with its result) it
\* starts no fetch and has none in flight.
C12_StepsInOrder ==
  /\ []StepsInOrder
  /\ [][(h.pc = "done" /\ h'.n = h.n) => (h' = h /\ fc' = fc)]_vars

\* a second run that stopped at the empty file list
C12_Witness ==
  /\ h.pc = "done"
  /\ h.n = 2
  /\ h.order = <<"page", "list">>
  /\ h.got["list"] = "empty"
  /\ h.response.statusCode = 400


\* C13: the cache lookup of a run, for the key it looks up, the map as it was
\* and the time of the lookup: a key never stored gives null and leaves the
\* map alone; an entry looked up after its expiry gives null and is removed
\* from the map; an entry looked up at or before its expiry gives the stored
\* data (the response of a request that does not ask for the download) and
\* stays.
C13_GetCacheExpiry ==
  (h.pc # "idle" /\ h.shareUrl # <<>>) =>
    LET key == h.shareUrl
        was == h.cacheWas
    IN /\ key \notin DOMAIN was => (~h.hit /\ ~h.evicted /\ (~h.wrote => globalCache = was))
       /\ (key \in DOMAIN was /\ h.lookedAt > was[key].expire) =>
            /\ ~h.hit /\ h.evicted
            /\ ~h.wrote => globalCache = MapDeleteKey(was, key)
       /\ (key \in DOMAIN was /\ h.lookedAt <= was[key].expire) =>
            /\ h.hit /\ ~h.evicted
            /\ ~h.download => (h.pc = "done" /\ h.response.data = was[key].data)
            /\ ~h.wrote => globalCache = was

\* a lookup at the very time of the entry's expiry, which finds it, in a cache
\* from which an earlier lookup has removed an expired entry
C13_WitnessAtExpiry ==
  /\ h.pc = "done"
  /\ h.hit
  /\ h.shareUrl \in DOMAIN h.cacheWas
  /\ h.lookedAt = h.cacheWas[h.shareUrl].expire
  /\ h.response.data = h.cacheWas[h.shareUrl].data

\* a lookup after the entry's expiry, which removes it
C13_Witness ==
  /\ h.evicted
  /\ h.lookedAt > h.cacheWas[h.shareUrl].expire
  /\ h.shareUrl \notin DOMAIN globalCache


\* the headers a proxy adds of its own
CorsHeaderNames ==
  { ToLowerCase(AccessControlAllowOrigin), ToLowerCase(AccessControlAllowMethods),
    ToLowerCase(AccessControlExposeHeaders) }

\* the run has relayed an answer of the download link
Proxied == h.pc = "done" /\ "proxy" \in h.issued /\ h.proxyStatus # 0

\* C14 as stated: every header of a proxied response is one the proxy adds
\* itself, or a header of the upstream whose name, in lower case, begins with
\* "content-" or is "accept-ranges".
C14_OnlyContentHeadersForwarded ==
  Proxied =>
    \A k \in DOMAIN h.response.headers :
      \/ k \in CorsHeaderNames
      \/ StartsWith(ToLowerCase(k), ContentPrefix \o <<"-">>)
      \/ ToLowerCase(k) = AcceptRanges

\* C15 as stated: the proxied response has the status of the download link's
\* answer, whatever it is, and carries Access-Control-Allow-Origin: *.
C15_StatusRelayed ==
  Proxied =>
    /\ h.response.statusCode = h.proxyStatus
    /\ ToLowerCase(AccessControlAllowOrigin) \in DOMAIN h.response.headers
    /\ h.response.headers[ToLowerCase(AccessControlAllowOrigin)] = "*"


(***************************************************************************)
(* app/api/route.ts, lines 229-346: the GET that uses the platform's fetch *)
(* with its own following of redirects.                                    *)
(***************************************************************************)
\* str.substring(a, b): both ends are brought into 0..length and put in order
Substring(str, a, b) ==
  LET lo == IF a < 0 THEN 0 ELSE IF a > Len(str) THEN Len(str) ELSE a
      hi == IF b < 0 THEN 0 ELSE IF b > Len(str) THEN Len(str) ELSE b
  IN IF lo <= hi THEN Slice(str, lo, hi) ELSE Slice(str, hi, lo)

\* lines 264-268: findBetween without a look at what indexOf returns
LFindBetween(str, start, end) ==
  LET startIndex == IndexOf(str, start) + Len(start)
      endIndex == IndexOfFrom(str, end, startIndex)
  IN Substring(str, startIndex, endIndex)

JsTokenStart == <<"f","n","%","2","8","%","2","2">>
JsTokenEnd == <<"%","2","2","%","2","9">>
BdstokenStart == <<"b","d","s","t","o","k","e","n","\"",":","\"">>
BdstokenEnd == <<"\"">>

\* the text of a share page: with both tokens, with neither, and empty
HtmlOf(body) ==
  CASE body = "token" -> <<"x","=","f","n","%","2","8","%","2","2","T","%","2","2","%","2","9",";","{","\"","b","d","s","t","o","k","e","n","\"",":","\"","B","\"","}">>
    [] body = "notoken" -> <<"<","h","t","m","l",">","<","/","h","t","m","l",">">>
    [] OTHER -> <<>>

\* the first request of a step: fetch(url, {method, headers}) with the Cookie
\* of process.env.COOKIE
LSending(run, pc) ==
  [run EXCEPT !.pc = pc, !.issued = @ \cup {pc}, !.order = Append(@, pc),
              !.sent = MapSetKey(@, pc, env.COOKIE)]

\* lines 343-345: the catch clause
LCaught(run, error) == Reply(Thrown(run, error), 400, "Unknown Error", NONE, NoData)

\* lines 329: fetch(direct_link), without any header
LProxy(run, url) ==
  [run EXCEPT !.pc = "proxy", !.issued = @ \cup {"proxy"}, !.order = Append(@, "proxy"),
              !.proxyReq = [url |-> url, cookie |-> NoHeader, range |-> NoHeader]]

\* lines 332-334: the upstream's headers and the cross-origin one
LProxyHeaders(upstream) == HeadersSet(upstream, AccessControlAllowOrigin, "*")

LInit ==
  /\ CookieIdle
  /\ bg = NoBg
  /\ sz = NoSize
  /\ tk = NoToken
  /\ up = NoUpstream
  /\ fc = NoCall
  /\ h = NoRun
  /\ env = [COOKIE |-> <<"n","=","0">>, edge |-> FALSE]
  /\ globalCache = <<>>
  /\ clock = [now |-> 0, ticks |-> 0]
  /\ edgeCache = <<>>
  /\ kv = NONE

\* lines 271-285: the parameters and the request for the share page
LStart ==
  /\ h.pc \in {"idle", "done"}
  /\ h.n < MaxRuns
  /\ \E link \in ApiLinks \cup {<<>>}, req \in Requests :
       LET run == [FreshRun(h.n + 1, <<>>) EXCEPT !.shareUrl = link, !.proxy = req.proxy,
                     !.download = req.download, !.range = req.range, !.cookie = env.COOKIE]
       IN h' = IF link = <<>>
               THEN Reply(run, 400, "Missing data", NONE, NoData)
               ELSE LSending(run, "page")
  /\ UNCHANGED <<fc, env, globalCache, clock, edgeCache, kv, cookieVars, up, bg, sz, tk>>

\* the answers to the request in flight, after the redirects fetch has
\* followed: the URL it ended at, the status, the body, the headers
LAnswers(pc) ==
  CASE pc = "page" ->
         { [status |-> 200, url |-> u, body |-> b, headers |-> <<>>] :
             u \in ApiLinks, b \in {"token", "notoken", "blank"} }
    [] pc = "list" ->
         { [status |-> 200, url |-> ListApiUrl, body |-> b, headers |-> <<>>] :
             b \in {"file", "nodlink", "empty", "nolist", "invalid"} }
    [] pc = "dlink" ->
         { [status |-> st, url |-> DlinkUrl, body |-> "none", headers |-> <<>>] : st \in {200, 404} }
    [] pc = "proxy" ->
         { [status |-> st, url |-> DlinkUrl, body |-> "none", headers |-> hs] :
             st \in {200, 206, 404}, hs \in UpstreamHeaders }

\* the handler from the return of a fetch to its next await or its response
LAfter(run, res) ==
  CASE run.pc = "page" ->
         LET jsToken == LFindBetween(HtmlOf(res.body), JsTokenStart, JsTokenEnd)
             bdstoken == LFindBetween(HtmlOf(res.body), BdstokenStart, BdstokenEnd)
         IN IF SearchParamGet(res.url, <<"s","u","r","l">>) = NONE
            THEN Reply(run, 400, "Missing surl", NONE, NoData)
            ELSE IF jsToken = <<>> \/ bdstoken = <<>>
            THEN Reply(run, 400, "Invalid Response", NONE, NoData)
            ELSE LSending([run EXCEPT !.jsToken = TRUE,
                                      !.surl = SearchParamGet(res.url, <<"s","u","r","l">>)], "list")
    [] run.pc = "list" ->
         CASE res.body = "invalid" -> LCaught(run, "Unexpected token")
           [] res.body = "nolist" -> Reply(run, 400, "Parsing JSON Error", NONE, NoData)
           [] res.body = "empty" -> LCaught(run, "Cannot read properties of undefined (reading 'dlink')")
           [] res.body = "nodlink" -> LCaught(run, "Invalid URL")
           [] OTHER -> LSending([run EXCEPT !.dlink = DlinkUrl], "dlink")
    [] run.pc = "dlink" ->
         IF run.download THEN Reply(run, 302, "none", res.url, NoData)
         ELSE IF run.proxy THEN LProxy(run, res.url)
         ELSE [Reply(run, 200, "none", NONE, [link |-> run.dlink, direct_link |-> res.url])
                 EXCEPT !.response.headers = HeadersSet(<<>>, AccessControlAllowOrigin, "*")]
    [] run.pc = "proxy" ->
         IF ~(res.status >= 200 /\ res.status <= 299)
         THEN Reply(run, 400, "Upstream Error", NONE, NoData)
         ELSE [Reply(run, 200, "none", NONE, NoData)
                 EXCEPT !.response.headers = LProxyHeaders(res.headers)]

\* the request in flight is answered
LRespond ==
  /\ h.pc \in {"page", "list", "dlink", "proxy"}
  /\ \E r \in LAnswers(h.pc) :
       h' = LAfter([h EXCEPT !.got = IF r.body # "none" THEN MapSetKey(@, h.pc, r.body) ELSE @,
                             !.proxyStatus = IF h.pc = "proxy" THEN r.status ELSE @], r)
  /\ UNCHANGED <<fc, env, globalCache, clock, edgeCache, kv, cookieVars, up, bg, sz, tk>>

\* the request in flight fails: the catch clause of the proxy, or the outer one
LReject ==
  /\ h.pc \in {"page", "list", "dlink", "proxy"}
  /\ h' = IF h.pc = "proxy"
          THEN Reply(Thrown(h, "fetch failed"), 400, "Failed to proxy download", NONE, NoData)
          ELSE LCaught(h, "fetch failed")
  /\ UNCHANGED <<fc, env, globalCache, clock, edgeCache, kv, cookieVars, up, bg, sz, tk>>

LNext == LStart \/ LRespond \/ LReject

SpecLegacy == LInit /\ [][LNext]_vars

\* C16 as stated: the request the proxy sends to the download link carries the
\* Range header of the inbound request, and none when that has none.
C16_RangeThreaded == "proxy" \in h.issued => h.proxyReq.range = h.range

\* C20 as stated: an exception raised in a run ends it with status 500 and
\* the body {error: <the exception's message>}; none leaves the handler.
C20_ExceptionsBecome500 ==
  (h.pc = "done" /\ h.threw # "none") =>
    /\ h.response.statusCode = 500
    /\ h.response.error = h.threw


\* C17 as stated: a request with the download flag and without the proxy flag,
\* whose run got the token, the share identifier and a file list with a first
\* file and met no failure of the network, is answered 302 with the direct
\* link as Location and an empty body, whatever the skip-direct-link flag.
C17_DownloadRedirects ==
  ( /\ h.pc = "done" /\ h.download /\ ~h.proxy
    /\ h.jsToken /\ h.surl # NONE
    /\ "list" \in DOMAIN h.got /\ h.got["list"] = "file"
    /\ h.threw \notin {"fetch failed", "AbortError", TooManyRedirects} ) =>
    /\ h.response.statusCode = 302
    /\ h.response.location # NONE /\ h.response.location # <<>>
    /\ h.response.data = NoData


(***************************************************************************)
(* unnamed/part_002: the GET without a cache, which answers a failed step  *)
(* with the status of the upstream's response.                             *)
(***************************************************************************)
\* each fetch of the handler starts from the handler's `headers`
GCall(url, method, max) == FetchCall("pairOnce", url, env.COOKIE, method, max)

GFail(run, statusCode, error) == [run |-> Reply(run, statusCode, error, NONE, NoData), call |-> NoCall]

GFetch(run, pc, url, method, max) ==
  [run |-> Sending(run, pc, GCall(url, method, max), env.COOKIE), call |-> GCall(url, method, max)]

\* lines 209-213: the catch clause
GCaught(run, error) == Reply(Thrown(run, error), 500, error, NONE, NoData)

GInit ==
  /\ CookieIdle
  /\ bg = NoBg
  /\ sz = NoSize
  /\ tk = NoToken
  /\ up = NoUpstream
  /\ fc = NoCall
  /\ h = NoRun
  /\ env \in {[COOKIE |-> <<"n","=","0">>, edge |-> FALSE], [COOKIE |-> NoHeader, edge |-> FALSE]}
  /\ globalCache = <<>>
  /\ clock = [now |-> 0, ticks |-> 0]
  /\ edgeCache = <<>>
  /\ kv = NONE

\* lines 122-138: the parameters and the first request for the share page
GStart ==
  /\ h.pc \in {"idle", "done"}
  /\ h.n < MaxRuns
  /\ \E shareUrl \in ShareLinks \cup {<<>>}, download \in BOOLEAN :
       LET run == [FreshRun(h.n + 1, <<>>) EXCEPT !.shareUrl = shareUrl, !.download = download,
                                                  !.cookie = env.COOKIE]
       IN IF shareUrl = <<>>
          THEN /\ h' = Reply(run, 400, "Missing data", NONE, NoData)
               /\ UNCHANGED fc
          ELSE /\ fc' = GCall(shareUrl, "GET", SHORT_MAX_REDIRECTS)
               /\ h' = Sending(run, "page", GCall(shareUrl, "GET", SHORT_MAX_REDIRECTS), env.COOKIE)
  /\ UNCHANGED <<env, globalCache, clock, edgeCache, kv, cookieVars, up, bg, sz, tk>>

\* the handler from the return of a fetch to its next await or its response
GAfter(run, res) ==
  CASE run.pc = "page" ->
         IF res.body # "token" THEN GFail(run, res.status, "Missing jsToken")
         ELSE IF SurlOf(res.url) = NONE THEN GFail([run EXCEPT !.jsToken = TRUE], res.status, "Missing surl")
         ELSE GFetch([run EXCEPT !.jsToken = TRUE, !.surl = SurlOf(res.url)], "list",
                     ListApiUrl, "GET", SHORT_MAX_REDIRECTS)
    [] run.pc = "list" ->
         IF res.body = "invalid" THEN [run |-> GCaught(run, "Unexpected token"), call |-> NoCall]
         ELSE IF res.body # "file" THEN GFail(run, res.status, "File not found")
         ELSE GFetch([run EXCEPT !.dlink = DlinkUrl], "dlink", DlinkUrl, "HEAD", DLINK_MAX_REDIRECTS)
    [] run.pc = "dlink" ->
         IF res.url = <<>> THEN GFail(run, res.status, "Direct link failed")
         ELSE [run |-> IF run.download
                       THEN Reply(run, 302, "none", res.url, NoData)
                       ELSE Reply(run, 200, "none", NONE, [link |-> run.dlink, direct_link |-> res.url]),
               call |-> NoCall]

\* the request in flight is answered
GRespond ==
  /\ h.pc \in {"page", "list", "dlink"}
  /\ fc.state = "await"
  /\ \E r \in Answers({200, 404}, HandlerLocations) :
       LET call == FetchResume(fc, r)
           run == Received(h, r)
       IN CASE call.state = "await" -> fc' = call /\ h' = run
            [] call.state = "throw" -> fc' = NoCall /\ h' = GCaught(run, call.error)
            [] call.state = "return" ->
                 LET after == GAfter(run, call.res)
                 IN fc' = after.call /\ h' = after.run
  /\ UNCHANGED <<env, globalCache, clock, edgeCache, kv, cookieVars, up, bg, sz, tk>>

\* the request in flight fails: the catch clause
GReject ==
  /\ h.pc \in {"page", "list", "dlink"}
  /\ fc.state = "await"
  /\ h' = GCaught(h, FetchReject(fc, "fetch failed").error)
  /\ fc' = NoCall
  /\ UNCHANGED <<env, globalCache, clock, edgeCache, kv, cookieVars, up, bg, sz, tk>>

GNext == GStart \/ GRespond \/ GReject

SpecGet == GInit /\ [][GNext]_vars

\* C18 as stated: when the file list comes back empty, the run answers with
\* status 400 and a JSON error body and requests no download link.
C18_EmptyListIs400 ==
  (h.pc = "done" /\ "list" \in DOMAIN h.got /\ h.got["list"] = "empty") =>
    /\ h.response.statusCode = 400
    /\ h.response.error # "none"
    /\ h.issued \cap {"dlink", "proxy"} = {}


\* C19: no request of a resolution is in flight for longer than the timeout;
\* a run whose request the timeout aborted has answered with the error
\* 'Timeout', has no request in flight, and has stored nothing.
C19_CallsTimeOut ==
  /\ (fc.state = "await" \/ h.pc = "proxy") => h.waited <= FETCH_TIMEOUT
  /\ h.threw = "AbortError" =>
       /\ h.pc = "done"
       /\ h.response.error = "Timeout"
       /\ h.response.statusCode = 500
       /\ fc = NoCall
       /\ ~h.wrote /\ globalCache = CacheAfterGet(h.cacheWas, h.shareUrl, h.lookedAt)

\* a run whose third request was aborted by the timeout
C19_Witness ==
  /\ h.threw = "AbortError"
  /\ h.order = <<"template", "info", "download">>
  /\ h.response.error = "Timeout"

(***************************************************************************)
(* The share identifier.                                                   *)
(***************************************************************************)
\* the share-page fetch of the run returns in this step; its final URL is the
\* URL of the request that was answered
PageFetchReturns == h.pc = "page" /\ fc.state = "await" /\ h'.pc # "page"

\* C21: when the share-page fetch returns, the identifier the run goes on with
\* is the 'surl' query parameter of the final URL or, when that is absent, its
\* '/s/<id>' path segment, and the run ends with 'Missing surl' only when the
\* final URL has neither.
C21_SurlFromQueryOrPath ==
  [][PageFetchReturns =>
       /\ h'.response.error \in {"Missing surl", "surl not found"} => SurlOf(fc.current) = NONE
       /\ h'.surl # NONE => h'.surl = SurlOf(fc.current)
       /\ "list" \in h'.issued => h'.surl # NONE]_vars

(***************************************************************************)
(* The cookie written back.                                                *)
(***************************************************************************)
\* the jar the run has accumulated: the Cookie header of its `headers`
RunJar == IF h.cookie = NoHeader THEN <<>> ELSE h.cookie

\* the jar of the run differs, once normalized, from the cookie it loaded
JarChanged == normalizeCookie(RunJar) # normalizeCookie(h.oldCookie)

\* a run that has negotiated with the upstream has ended
ResolutionEnded == h.pc = "done" /\ h.issued # {}

\* C22: at the end of a resolution run the cookie store has been written if
\* and only if the run's jar differs, after normalization, from the cookie
\* loaded at entry; a store that was written holds the run's jar.
C22_WriteBackIffChanged ==
  ResolutionEnded =>
    /\ h.wrote <=> JarChanged
    /\ h.wrote => kv = RunJar

(***************************************************************************)
(* Two invocations for one share link.                                     *)
(***************************************************************************)
\* every entry of the cache is a whole result: the download link and the
\* direct link of a run whose four fetches succeeded
EntriesComplete ==
  \A key \in DOMAIN globalCache :
    /\ globalCache[key].data.link = DlinkUrl
    /\ globalCache[key].data.direct_link \notin {NONE, <<>>}

\* the invocation being run ends its last fetch and stores its result
StoreStep == bg' = bg /\ h.pc = "dlink" /\ h'.pc = "done" /\ h'.wrote

\* the invocation being run begins and looks the cache up
LookupStep == bg' = bg /\ h'.n = h.n + 1

\* C23: with two invocations interleaved at their awaits the cache holds whole
\* results only; an invocation that stores overwrites the entry of its link
\* with its own result, whatever the other has stored, and nothing but a store
\* or the eviction of an expired entry at a lookup changes the cache, so that
\* the entry is the result of the setCache that ran last.
C23_LastWriteWins ==
  /\ []EntriesComplete
  /\ [][/\ StoreStep =>
             globalCache' = MapSetKey(globalCache, h.shareUrl,
                                      [data |-> [link |-> h.dlink, direct_link |-> fc.current],
                                       expire |-> clock.now + CACHE_TTL])
        /\ globalCache' # globalCache =>
             \/ StoreStep
             \/ LookupStep /\ globalCache' = MapDeleteKey(globalCache, h'.shareUrl)]_vars

\* two invocations for one link that both began at time 0 with the cache
\* empty have both stored; the entry is that of the later store
C23_Witness ==
  /\ h.pc = "done" /\ bg.h.pc = "done"
  /\ h.shareUrl = bg.h.shareUrl
  /\ h.wrote /\ bg.h.wrote
  /\ ~h.download /\ ~bg.h.download
  /\ h.cacheWas = <<>> /\ bg.h.cacheWas = <<>>
  /\ h.lookedAt = 0 /\ bg.h.lookedAt = 0
  /\ clock.now > 0
  /\ globalCache[h.shareUrl].expire = clock.now + CACHE_TTL

(***************************************************************************)
(* The key of the result cache.                                            *)
(***************************************************************************)
\* the entries of the cache at the run's lookup that are live and whose key
\* is, once trimmed, the run's link once trimmed
LiveEntriesOfLink ==
  {k \in DOMAIN h.cacheWas : Trim(k) = Trim(h.shareUrl) /\ h.lookedAt <= h.cacheWas[k].expire}

\* C24: the cache is keyed by the trimmed input link: every key is trimmed,
\* and a request (not one for the download) for a link that, trimmed, has a
\* live entry is served from the cache without any upstream request.
C24_KeyIsNormalizedLink ==
  /\ \A k \in DOMAIN globalCache : k = Trim(k)
  /\ (h.pc # "idle" /\ ~h.download /\ LiveEntriesOfLink # {}) => (h.hit /\ h.issued = {})

(***************************************************************************)
(* The scheme of the URLs requested.                                       *)
(***************************************************************************)
\* C25: the client has a request in flight only to a URL whose scheme is http
\* or https, whatever Location headers the upstream has sent.
C25_OnlyHttpRequested == fc.state = "await" => IsHttpUrl(fc.current)

(***************************************************************************)
(* The metadata-only mode.                                                 *)
(***************************************************************************)
\* the request asks for the metadata only, without the direct link
MetadataOnly == h.nodirectlink /\ ~h.proxy /\ ~h.download

\* the list fetch of the run returned a list with a file in it
ListHasFile == "list" \in DOMAIN h.got /\ h.got["list"] \in {"file", "nodlink"}

\* C26: a run with nodirectlink set, and neither proxy nor download, sends no
\* request to the file's download link, and once the list has a file answers
\* 200 with the metadata and an empty direct_link; a run without the flag
\* (and without proxy) whose download-link fetch returns has, as direct link,
\* the URL of the last request of that fetch.
C26_MetadataOnlySkipsDirectLink ==
  /\ [](MetadataOnly =>
          /\ "dlink" \notin h.issued /\ "proxy" \notin h.issued
          /\ (h.pc = "done" /\ ListHasFile) =>
               /\ h.response.statusCode = 200
               /\ h.response.data.direct_link = <<>>
               /\ h.response.data.link = h.dlink)
  /\ [][(h.pc = "dlink" /\ h'.pc = "done" /\ h'.threw = "none") =>
          /\ ~h.nodirectlink
          /\ IF h.download
             THEN h'.response.statusCode = 302 /\ h'.response.location = fc.current
             ELSE /\ h'.response.statusCode = 200
                  /\ h'.response.data.direct_link = fc.current]_vars

\* a metadata-only run has answered with the file's link and no direct link,
\* after the share page and the list only
C26_Witness ==
  /\ h.pc = "done" /\ MetadataOnly
  /\ h.order = <<"page", "list">>
  /\ h.response.statusCode = 200
  /\ h.response.data = [link |-> DlinkUrl, direct_link |-> <<>>]

(***************************************************************************)
(* getFormattedSize: the size of the file as the response shows it.        *)
(***************************************************************************)
\* String(n) for a non-negative integer
RECURSIVE NumberToString(_)
NumberToString(n) ==
  IF n < 10 THEN <<DigitChars[n + 1]>>
  ELSE NumberToString(n \div 10) \o <<DigitChars[(n % 10) + 1]>>

\* (num / den).toFixed(2) for non-negative integers: the nearest number of
\* hundredths, the larger one of two that are equally near
ToFixed2(num, den) ==
  LET hundredths == (200 * num + den) \div (2 * den)
      cents == hundredths % 100
  IN NumberToString(hundredths \div 100) \o <<".">>
       \o <<DigitChars[(cents \div 10) + 1], DigitChars[(cents % 10) + 1]>>

KB == 1024
MB == 1024 * 1024

\* functions/api.ts lines 244-248; app/api/route.ts lines 28-33 read the same
\* for a finite number
getFormattedSize(bytes) ==
  IF bytes >= MB THEN ToFixed2(bytes, MB) \o <<" ","M","B">>
  ELSE IF bytes >= KB THEN ToFixed2(bytes, KB) \o <<" ","K","B">>
  ELSE NumberToString(bytes) \o <<" ","b","y","t","e","s">>

\* app/api/route.ts lines 234-249: size.toFixed(2) whatever the unit
LGetFormattedSize(sizeBytes) ==
  LET unit == IF sizeBytes >= MB THEN <<"M","B">>
              ELSE IF sizeBytes >= KB THEN <<"K","B">> ELSE <<"b","y","t","e","s">>
      size == IF sizeBytes >= MB THEN ToFixed2(sizeBytes, MB)
              ELSE IF sizeBytes >= KB THEN ToFixed2(sizeBytes, KB) ELSE ToFixed2(sizeBytes, 1)
  IN size \o <<" ">> \o unit

\* byte counts: around 0, around the two thresholds, halves of a hundredth,
\* and sizes of some megabytes
SizeSamples ==
  (0..3) \cup (1020..1030) \cup (1150..1154) \cup {1536, 10240, 524288}
  \cup ((MB - 3)..(MB + 3)) \cup {MB + 5243, MB + 47186, 5 * MB, 7 * MB + 1}

SzInit ==
  /\ CookieIdle
  /\ FetchIdle
  /\ h = NoRun /\ env = NoEnv /\ globalCache = <<>> /\ clock = [now |-> 0, ticks |-> 0]
  /\ edgeCache = <<>> /\ kv = NONE /\ bg = NoBg /\ tk = NoToken
  /\ sz \in [bytes : SizeSamples, legacy : BOOLEAN, out : {NONE}]

\* size: getFormattedSize(+file.size)
SzFormat ==
  /\ sz.out = NONE /\ ~sz.legacy
  /\ sz' = [sz EXCEPT !.out = getFormattedSize(sz.bytes)]
  /\ UNCHANGED <<ck, fc, up, h, env, globalCache, clock, edgeCache, kv, bg, tk>>

SzFormatLegacy ==
  /\ sz.out = NONE /\ sz.legacy
  /\ sz' = [sz EXCEPT !.out = LGetFormattedSize(sz.bytes)]
  /\ UNCHANGED <<ck, fc, up, h, env, globalCache, clock, edgeCache, kv, bg, tk>>

SzNext == SzFormat \/ SzFormatLegacy

SpecSize == SzInit /\ [][SzNext]_vars

\* the number a string of decimal digits denotes, -1 when it is not one
RECURSIVE DigitsValue(_)
DigitsValue(s) ==
  IF s = <<>> \/ PosIn(s[Len(s)], DigitChars) = 0 THEN -1
  ELSE IF Len(s) = 1 THEN PosIn(s[1], DigitChars) - 1
  ELSE IF DigitsValue(SubSeq(s, 1, Len(s) - 1)) = -1 THEN -1
  ELSE 10 * DigitsValue(SubSeq(s, 1, Len(s) - 1)) + PosIn(s[Len(s)], DigitChars) - 1

\* a plain integer: decimal digits, no leading zero but for "0" itself
IsPlainInteger(s) == DigitsValue(s) # -1 /\ (Len(s) = 1 \/ s[1] # "0")

\* s shows num/den with exactly two decimals: "I.FF", I a plain integer, and
\* no number of hundredths is nearer to num/den
ShowsWithTwoDecimals(s, num, den) ==
  /\ Len(s) >= 4 /\ s[Len(s) - 2] = "."
  /\ IsPlainInteger(SubSeq(s, 1, Len(s) - 3))
  /\ DigitsValue(SubSeq(s, Len(s) - 1, Len(s))) # -1
  /\ LET shown == 100 * DigitsValue(SubSeq(s, 1, Len(s) - 3)) + DigitsValue(SubSeq(s, Len(s) - 1, Len(s)))
         off == 2 * (shown * den - 100 * num)
     IN off <= 100 * den /\ -off <= 100 * den

\* the part of s before its last blank, and the part after it
BeforeUnit(s) == Slice(s, 0, LastIndexOfChar(s, " "))
UnitOf(s) == Slice(s, LastIndexOfChar(s, " ") + 1, Len(s))

\* C27: the string made of n bytes is '<n> bytes' with n a plain integer when
\* n < 1024, n/1024 with exactly two decimals and ' KB' when 1024 <= n < 1024^2,
\* and n/1024/1024 with exactly two decimals and ' MB' from 1024^2 on.
C27_SizeFormatted ==
  sz.out # NONE =>
    IF sz.bytes < KB
    THEN UnitOf(sz.out) = <<"b","y","t","e","s">> /\ BeforeUnit(sz.out) = NumberToString(sz.bytes)
    ELSE IF sz.bytes < MB
    THEN UnitOf(sz.out) = <<"K","B">> /\ ShowsWithTwoDecimals(BeforeUnit(sz.out), sz.bytes, KB)
    ELSE UnitOf(sz.out) = <<"M","B">> /\ ShowsWithTwoDecimals(BeforeUnit(sz.out), sz.bytes, MB)

(***************************************************************************)
(* The cookies replayed within a call.                                     *)
(***************************************************************************)
\* the ';'-separated segments of a Cookie header, trimmed
CookieSegments(header) ==
  LET pieces == Split(header, ";")
  IN {Trim(pieces[i]) : i \in 1..Len(pieces)} \ {<<>>}

\* C28: the Cookie header of the request in flight holds every cookie that a
\* Set-Cookie line of an earlier response of the call delivered, and from one
\* request of a call to the next no cookie is dropped from the header (so the
\* cookie the call was seeded with stays).
C28_CookiesReplayed ==
  /\ [](fc.state = "await" => up.delivered \subseteq CookieSegments(fc.cookieStore))
  /\ [][CookieSegments(fc.cookieStore) \subseteq CookieSegments(fc'.cookieStore)]_vars

\* the same, for responses that carry at most one Set-Cookie line
C28_SingleLinesReplayed ==
  (fc.state = "await" /\ <<"c","=","3">> \notin up.delivered) =>
     up.delivered \subseteq CookieSegments(fc.cookieStore)

(***************************************************************************)
(* The cookies sent and stored.                                            *)
(***************************************************************************)
\* a cookie string of name=value pairs only, one for a name at most
OnlyCookiePairs(cookie) ==
  LET pieces == FilterNonEmpty(Split(cookie, ";"))
  IN /\ \A i \in 1..Len(pieces) : IsCookieSeg(Trim(pieces[i]))
     /\ \A i, j \in 1..Len(pieces) :
          SegName(Trim(pieces[i])) = SegName(Trim(pieces[j])) => i = j

\* the Cookie header of the request in flight, "" for none
CookieInFlight == CookieOf(RequestOf(fc, h.cookie).cookie)

\* C29: the Cookie header of every request in flight and the string in the
\* cookie store hold name=value pairs only, one for a cookie name at most, and
\* no attribute of a Set-Cookie header received.
C29_CookiesAttributeFree ==
  /\ (h.pc \notin {"idle", "done"} /\ fc.state = "await") => OnlyCookiePairs(CookieInFlight)
  /\ kv # NONE => OnlyCookiePairs(kv)

MaxTokenFrags == 2

\* lines 23-29: findBetween, null (NONE) when either mark is absent
findBetween(str, start, end) ==
  LET s == IndexOf(str, start)
  IN IF s = -1 THEN NONE
     ELSE LET e == IndexOfFrom(str, end, s + Len(start))
          IN IF e = -1 THEN NONE ELSE Substring(str, s + Len(start), e)

\* lines 106-108: the start and end marks of the three forms, in the order
\* of the expression
TokenStrategies ==
  << [start |-> <<"f","n","(","\"">>, end |-> <<"\"",")">>],
     [start |-> <<"f","n","%","2","8","%","2","2">>, end |-> <<"%","2","2","%","2","9">>],
     [start |-> <<"j","s","T","o","k","e","n","\"",":","\"">>, end |-> <<"\"">>] >>

\* a || b passing over null alone
FalsyOnlyNull(v) == v = NONE

\* a value that a || b passes over: null and the empty string
Falsy(v) == v = NONE \/ v = <<>>

StrategyMatch(html, k) == findBetween(html, TokenStrategies[k].start, TokenStrategies[k].end)

\* lines 105-108: a || b || c evaluates the operands from the left up to
\* the first one that is not falsy, or to the last
RECURSIVE OrChain(_, _)
OrChain(html, k) ==
  LET v == StrategyMatch(html, k)
  IN IF ~Falsy(v) \/ k = Len(TokenStrategies)
     THEN [consulted |-> k, jsToken |-> v]
     ELSE OrChain(html, k + 1)

\* pieces of a page: each form with a token and with an empty one, a call
\* that is not closed, and other text
TokenFrags ==
  { <<"f","n","(","\"","A","\"",")">>, <<"f","n","(","\"","\"",")">>,
    <<"f","n","%","2","8","%","2","2","B","%","2","2","%","2","9">>,
    <<"f","n","%","2","8","%","2","2","%","2","2","%","2","9">>,
    <<"j","s","T","o","k","e","n","\"",":","\"","C","\"">>,
    <<"j","s","T","o","k","e","n","\"",":","\"","\"">>,
    <<"f","n","(","\"","D">>, <<"<","p",">">> }

RECURSIVE Concat(_)
Concat(pieces) == IF pieces = <<>> THEN <<>> ELSE Head(pieces) \o Concat(Tail(pieces))

TokenPages == { Concat(fs) : fs \in UNION { [1..n -> TokenFrags] : n \in 0..MaxTokenFrags } }

TkInit ==
  /\ CookieIdle
  /\ FetchIdle
  /\ h = NoRun /\ env = NoEnv /\ globalCache = <<>> /\ clock = [now |-> 0, ticks |-> 0]
  /\ edgeCache = <<>> /\ kv = NONE /\ bg = NoBg /\ sz = NoSize
  /\ tk \in [html : TokenPages, consulted : {0}, jsToken : {NONE}]

\* lines 105-108: const jsToken = findBetween(...) || findBetween(...) || findBetween(...)
TkExtract ==
  /\ tk.consulted = 0
  /\ \E r \in {OrChain(tk.html, 1)} :
       tk' = [tk EXCEPT !.consulted = r.consulted, !.jsToken = r.jsToken]
  /\ UNCHANGED <<ck, fc, up, h, env, globalCache, clock, edgeCache, kv, bg, sz>>

TkNext == TkExtract

SpecToken == TkInit /\ [][TkNext]_vars

\* the strategies that find their marks in the page
Matching(html) == { k \in 1..Len(TokenStrategies) : StrategyMatch(html, k) # NONE }

FirstMatching(html) == CHOOSE k \in Matching(html) : \A j \in Matching(html) : k <= j

DlinkStepBegins == h.pc # "dlink" /\ h'.pc = "dlink"

\* the request in flight of the download-link step, made with HEAD, fails
HeadAttemptFails == h.pc = "dlink" /\ fc.method = "HEAD" /\ h'.threw # h.threw

\* the download-link step makes a request with GET next
GetChainBegins == h'.pc = "dlink" /\ fc'.state = "await" /\ fc'.method = "GET"

\* C32 as stated: the download-link step begins with a HEAD request, and a
\* HEAD attempt that fails is followed by a GET attempt, not by the end of
\* the resolution.
C32_HeadThenGetFallback ==
  [][/\ DlinkStepBegins => fc'.state = "await" /\ fc'.method = "HEAD"
     /\ HeadAttemptFails => GetChainBegins]_vars

\* the part of it that the handlers have: the step begins with HEAD and
\* every request of the step is made with HEAD
C32_HeadOnly == h.pc = "dlink" => fc.state = "await" /\ fc.method = "HEAD"

(***************************************************************************)
(* setCache and the lookups after it.                                      *)
(***************************************************************************)
\* C33: a run that stores its result at time t puts it under its link with
\* the expiry t + CACHE_TTL, whatever entry was there, and leaves every other
\* entry as it was; a later lookup of a key finds its entry as long as the
\* clock has not passed the entry's expiry, and gives the data stored.
C33_PutOverwrites ==
  [][/\ StoreStep =>
          /\ DOMAIN globalCache' = DOMAIN globalCache \cup {h.shareUrl}
          /\ globalCache'[h.shareUrl] = [data |-> [link |-> h.dlink, direct_link |-> fc.current],
                                         expire |-> clock.now + CACHE_TTL]
          /\ \A k \in DOMAIN globalCache \ {h.shareUrl} : globalCache'[k] = globalCache[k]
     /\ (LookupStep /\ h'.shareUrl \in DOMAIN globalCache) =>
          /\ h'.hit <=> clock.now <= globalCache[h'.shareUrl].expire
          /\ (h'.hit /\ ~h'.download) => h'.response.data = globalCache[h'.shareUrl].data]_vars

\* a run has stored its result over an entry of its link that had not
\* expired, with a later expiry
C33_Witness ==
  /\ h.pc = "done" /\ h.wrote
  /\ h.shareUrl \in DOMAIN h.cacheWas
  /\ h.lookedAt <= h.cacheWas[h.shareUrl].expire
  /\ globalCache[h.shareUrl].expire > h.cacheWas[h.shareUrl].expire

\* a run has stored its result beside the entry of another link
C33_WitnessOtherKey ==
  /\ h.pc = "done" /\ h.wrote
  /\ \E k \in DOMAIN h.cacheWas : k # h.shareUrl /\ k \in DOMAIN globalCache

(***************************************************************************)
(* netlify/functions/download.js: what a cache hit does to the cache.      *)
(***************************************************************************)
\* what a run served from the entry of its key answers with
ServedFrom(entry) ==
  /\ h'.pc = "done"
  /\ IF h'.download
     THEN h'.response.statusCode = 302 /\ h'.response.location = entry.data.direct_link
     ELSE h'.response.statusCode = 200 /\ h'.response.data = entry.data

\* C34: a lookup that finds an entry at or before its expiry answers with the
\* stored data and leaves the cache, the entry's expiry included, as it is;
\* an entry changes only when a run stores its result under its key, and no
\* entry expires later than one lifetime from now: an entry is not served
\* later than one lifetime after the run that stored it.
C34_HitLeavesCacheUnchanged ==
  /\ [](\A k \in DOMAIN globalCache : globalCache[k].expire <= clock.now + DOWNLOAD_CACHE_TTL)
  /\ [][/\ (LookupStep /\ h'.hit) =>
             /\ globalCache' = globalCache
             /\ clock.now <= globalCache[h'.shareUrl].expire
             /\ ServedFrom(globalCache[h'.shareUrl])
        /\ \A k \in DOMAIN globalCache \cap DOMAIN globalCache' :
             globalCache'[k] # globalCache[k] => StoreStep /\ k = h.shareUrl]_vars

\* a request for the download served from the cache at the very time of the
\* entry's expiry, one lifetime after it was stored; the entry is as it was
C34_Witness ==
  /\ h.pc = "done" /\ h.hit /\ h.download
  /\ h.lookedAt = DOWNLOAD_CACHE_TTL
  /\ globalCache = h.cacheWas
  /\ globalCache[h.shareUrl].expire = h.lookedAt
  /\ h.response.location = globalCache[h.shareUrl].data.direct_link

(***************************************************************************)
(* unnamed/part_001, lines 1-260: the GET with the in-memory cache keyed   *)
(* by the share identifier, looked up once the share page is there.        *)
(***************************************************************************)
PART1_CACHE_TTL == 25 * 60 * 1000

PCall(url, method, max) == FetchCall("pairOnce", url, env.COOKIE, method, max)

PFail(run, statusCode, error) ==
  [run |-> Reply(run, statusCode, error, NONE, NoData), call |-> NoCall, cache |-> globalCache]

PFetch(run, pc, url, method, max, cache) ==
  [run |-> Sending(run, pc, PCall(url, method, max), env.COOKIE), call |-> PCall(url, method, max),
   cache |-> cache]

\* lines 242-247: the catch clause
PCaught(run, error) == Reply(Thrown(run, error), 500, error, NONE, NoData)

\* lines 141-159: the parameters and the first request for the share page
PStart ==
  /\ h.pc \in {"idle", "done"}
  /\ h.n < MaxRuns
  /\ \E shareUrl \in ShareLinks \cup {<<>>}, download \in BOOLEAN :
       LET run == [FreshRun(h.n + 1, globalCache) EXCEPT !.shareUrl = shareUrl, !.download = download,
                                                         !.cookie = env.COOKIE]
       IN IF shareUrl = <<>>
          THEN /\ h' = Reply(run, 400, "Missing data", NONE, NoData)
               /\ UNCHANGED fc
          ELSE /\ fc' = PCall(shareUrl, "GET", SHORT_MAX_REDIRECTS)
               /\ h' = Sending(run, "page", PCall(shareUrl, "GET", SHORT_MAX_REDIRECTS), env.COOKIE)
  /\ UNCHANGED <<env, globalCache, clock, edgeCache, kv, cookieVars, up, bg, sz, tk>>

\* lines 180-184: getCache(surl), and the answer when it returns an entry
PLookup(run, surl) ==
  LET cached == getCache(globalCache, surl, clock.now)
      cache1 == CacheAfterGet(globalCache, surl, clock.now)
      looked == [run EXCEPT !.jsToken = TRUE, !.surl = surl, !.hit = cached # NoData,
                            !.evicted = cache1 # globalCache, !.lookedAt = clock.now]
  IN IF cached # NoData
     THEN [run |-> Reply(looked, 200, "none", NONE, cached), call |-> NoCall, cache |-> cache1]
     ELSE PFetch(looked, "list", ListApiUrl, "GET", SHORT_MAX_REDIRECTS, cache1)

\* the handler from the return of a fetch to its next await or its response,
\* and the cache it leaves
PAfter(run, res) ==
  CASE run.pc = "page" ->
         IF res.body # "token" THEN PFail(run, 500, "Missing jsToken")
         ELSE IF SurlOf(res.url) = NONE THEN PFail([run EXCEPT !.jsToken = TRUE], 500, "Missing surl")
         ELSE PLookup(run, SurlOf(res.url))
    [] run.pc = "list" ->
         IF res.body = "invalid"
         THEN [run |-> PCaught(run, "Unexpected token"), call |-> NoCall, cache |-> globalCache]
         ELSE IF res.body # "file" THEN PFail(run, 404, "File not found")
         ELSE PFetch([run EXCEPT !.dlink = DlinkUrl], "dlink", DlinkUrl, "HEAD", DLINK_MAX_REDIRECTS,
                     globalCache)
    [] run.pc = "dlink" ->
         LET result == [link |-> run.dlink, direct_link |-> res.url]
         IN IF res.url = <<>> THEN PFail(run, 502, "Direct link failed")
            ELSE [run |-> [(IF run.download
                            THEN Reply(run, 302, "none", res.url, NoData)
                            ELSE Reply(run, 200, "none", NONE, result)) EXCEPT !.wrote = TRUE],
                  call |-> NoCall,
                  cache |-> MapSetKey(globalCache, run.surl,
                                      [data |-> result, expire |-> clock.now + PART1_CACHE_TTL])]

\* the request in flight is answered
PRespond ==
  /\ h.pc \in {"page", "list", "dlink"}
  /\ fc.state = "await"
  /\ \E r \in Answers({200, 302}, HandlerLocations) :
       LET call == FetchResume(fc, r)
           run == Received(h, r)
       IN CASE call.state = "await" -> fc' = call /\ h' = run /\ UNCHANGED globalCache
            [] call.state = "throw" ->
                 fc' = NoCall /\ h' = PCaught(run, call.error) /\ UNCHANGED globalCache
            [] call.state = "return" ->
                 LET after == PAfter(run, call.res)
                 IN fc' = after.call /\ h' = after.run /\ globalCache' = after.cache
  /\ UNCHANGED <<env, clock, edgeCache, kv, cookieVars, up, bg, sz, tk>>

\* the request in flight fails: the catch clause
PReject ==
  /\ h.pc \in {"page", "list", "dlink"}
  /\ fc.state = "await"
  /\ h' = PCaught(h, FetchReject(fc, "fetch failed").error)
  /\ fc' = NoCall
  /\ UNCHANGED <<env, globalCache, clock, edgeCache, kv, cookieVars, up, bg, sz, tk>>

\* Date.now() advances by the lifetime of an entry, or a millisecond more
PTick == Tick(PART1_CACHE_TTL)

PNext == PStart \/ PRespond \/ PReject \/ PTick

SpecKeyed == GInit /\ [][PNext]_vars

\* the run has ended with a response that is not an error
EndedWell == h.pc = "done" /\ h.response.statusCode < 400

\* the run answered with a redirect to a direct link
AnsweredRedirect ==
  /\ h.response.statusCode = 302
  /\ h.response.location \notin {NONE, <<>>}
  /\ h.response.data = NoData

\* the run answered with the result as JSON
AnsweredJson == h.response.statusCode = 200 /\ h.response.data # NoData

\* C35 as stated: a run that ends well answers a request with the download
\* flag with a 302 to the direct link and one without with the JSON result,
\* whether it was served from the cache or by a resolution.
C35_ModeIndependentOfCache ==
  EndedWell => IF h.download THEN AnsweredRedirect ELSE AnsweredJson

\* the same for the runs that a resolution served
C35_ModeOfColdRuns ==
  (EndedWell /\ ~h.hit) => IF h.download THEN AnsweredRedirect ELSE AnsweredJson

(***************************************************************************)
(* The clients that add a Set-Cookie pair unless cookieStore.includes it.  *)
(***************************************************************************)
\* most cookies of a cookieStore
MaxStorePairs == 2

\* cookies of a cookieStore: two whose text holds the text of another's
StorePairs == { <<"a","=","1">>, <<"a","=","1","2">>, <<"b","a","=","1">>, <<"b","=","2">> }

\* cookieStore values: the pairs joined by "; "
StoreStrings ==
  { Join(ps, <<";", " ">>) : ps \in UNION { [1..n -> StorePairs] : n \in 0..MaxStorePairs } }

\* Set-Cookie headers received
AppendSetCookies ==
  { <<"a","=","1",";"," ","P","a","t","h","=","/">>, <<"a","=","1">>, <<"b","=","2">>, <<"a","=","3">> }

CkAppendInit ==
  /\ FetchIdle
  /\ HandlerIdle
  /\ \E jar \in StoreStrings, frag \in AppendSetCookies :
       ck = [NoCk EXCEPT !.mode = "append", !.jar = jar, !.frag = frag, !.store = jar]

\* the client receives Set-Cookie: ck.frag with ck.store as its cookieStore
CkAppendOnce ==
  /\ ck.mode = "append"
  /\ ck.merges = 0
  /\ ck' = [ck EXCEPT !.store = MergeSetCookie("pairOnce", ck.store, ck.frag), !.merges = 1]
  /\ UNCHANGED <<fetchVars, handlerVars>>

CkAppendNext == CkAppendOnce

SpecAppend == CkAppendInit /\ [][CkAppendNext]_vars

\* C36 as stated: a pair received that is not a cookie of the jar is a cookie
\* of the jar afterwards, and the jar is left as it was only when the pair is
\* one of its cookies already.
C36_PairAddedUnlessPresent ==
  (ck.mode = "append" /\ ck.merges = 1) =>
    LET pair == CookiePair(ck.frag)
    IN /\ pair \notin CookiePairsOf(ck.jar) => pair \in CookiePairsOf(ck.store)
       /\ ck.store = ck.jar => pair \in CookiePairsOf(ck.jar)

\* what the clients do: the jar is left as it was exactly when the text of
\* the pair occurs in it, and has the pair appended otherwise
C36_SkippedWhenSubstring ==
  (ck.mode = "append" /\ ck.merges = 1) =>
    LET pair == CookiePair(ck.frag)
    IN IF \E k \in 0..(Len(ck.jar) - Len(pair)) : SubSeq(ck.jar, k + 1, k + Len(pair)) = pair
       THEN ck.store = ck.jar
       ELSE ck.store = (IF ck.jar = <<>> THEN pair ELSE ck.jar \o <<";", " ">> \o pair)

(***************************************************************************)
(* functions/api.ts: the cookie of COOKIE_KV over runs in a row.           *)
(***************************************************************************)
EndsWith(s, suffix) ==
  Len(suffix) <= Len(s) /\ SubSeq(s, Len(s) - Len(suffix) + 1, Len(s)) = suffix

\* what the Set-Cookie headers of one run add to its cookie string
SetCookieRuns ==
  { Join(vs, <<";", " ">>) : vs \in UNION { [1..n -> HandlerSetCookies] : n \in 1..MaxSetCookies } }

\* the fetch of the file list ends
ListFetchEnds == h.pc = "list" /\ fc.state = "await" /\ h'.pc # "list"

\* the cookie string the run has accumulated when its list fetch ends is the
\* one it loaded, or that with the Set-Cookie values appended that the loaded
\* one ends with already: the upstream has set what it set in the run that
\* wrote the stored cookie
NothingNewSet ==
  \/ CookieOf(h'.cookie) = h.oldCookie
  \/ \E s \in SetCookieRuns :
       /\ EndsWith(h.oldCookie, s)
       /\ CookieOf(h'.cookie) = AppendCookie(h.oldCookie, s)

\* C37: a run to which the upstream sets the cookies that the stored cookie
\* has from an earlier run does not write to the store, and the stored string
\* stays as it is.
C37_StoredCookieSettles ==
  [][(ListFetchEnds /\ NothingNewSet) => (kv' = kv /\ ~h'.wrote)]_vars

\* a second run that was sent the Set-Cookie of the first and has not written
C37_SettledRun ==
  /\ h.n = 2 /\ h.pc = "done" /\ "list" \in h.issued /\ ~h.wrote
  /\ h.oldCookie = kv
  /\ \E s \in SetCookieRuns : EndsWith(kv, s) /\ CookieOf(h.cookie) = AppendCookie(kv, s)

(***************************************************************************)
(* functions/api.ts: two invocations and the cookie of COOKIE_KV.          *)
(***************************************************************************)
\* requests for the metadata, with and without the direct link
PlainRequests ==
  { [proxy |-> FALSE, download |-> FALSE, nodirectlink |-> n, range |-> NoHeader] : n \in BOOLEAN }

AStartPlain == AStarts({<<"h","t","t","p",":","/","/","t","/","x","?","s","u","r","l","=","1">>}, PlainRequests)

\* Set-Cookie headers of two cookies
TwoSetCookies == { <<"a","=","1",";"," ","P","a","t","h","=","/">>, <<"b","=","2">> }

\* the request in flight is answered without a redirect
ARespondDirectly == AResponds(FALSE, TwoSetCookies, {})

\* the invocations share COOKIE_KV; the event loop runs one while the other
\* awaits a fetch
AConcurrentNext == AStartPlain \/ ARespondDirectly \/ AReject \/ NSwitch

SpecApiConcurrent == AInit /\ [][AConcurrentNext]_vars

\* the invocation being run ends its list fetch and writes to COOKIE_KV
PutStep == bg' = bg /\ h.pc = "list" /\ h'.pc # "list" /\ h'.wrote

NRespondPlain ==
  NResponds({r \in Answers({200, 302}, HandlerLocations) : r.setCookie = NoHeader})

NStartShare == NStarts({<<"h","t","t","p",":","/","/","t","/","x","?","s","u","r","l","=","1">>})

NFairNext == NStartShare \/ NRespondPlain \/ NReject

SpecNetlifyFair == NInit /\ [][NFairNext]_vars /\ WF_vars(NReject \/ NRespondPlain)

\* lines 115, 126, 143, 159: the fetches of the handler, in their order
NFetches == <<"main", "page", "list", "dlink">>

\* the upstream requests a run may yet have answered, the one in flight
\* included: what is left of the current fetch and all of the later ones
RequestsLeft(run, call) ==
  IF run.pc \in {"idle", "done"} THEN 0
  ELSE (Len(NFetches) - Len(run.order)) * MAX_REDIRECTS + (MAX_REDIRECTS - call.i)

\* the run has its response
Responded(run) == run.response # NoReply

\* the count of requests left falls with every step of a run, and the run's
\* response is set once, when it ends
C39_RequestsBounded ==
  /\ [](/\ RequestsLeft(h, fc) <= Len(NFetches) * MAX_REDIRECTS
        /\ h.pc \notin {"idle", "done"} =>
             /\ fc.state = "await" /\ RequestsLeft(h, fc) > 0
             /\ h.order = SubSeq(NFetches, 1, Len(h.order)) /\ h.pc = h.order[Len(h.order)]
        /\ h.n > 0 => (Responded(h) <=> h.pc = "done"))
  /\ [][h'.n = h.n =>
          /\ (h' # h \/ fc' # fc) => RequestsLeft(h', fc') < RequestsLeft(h, fc)
          /\ Responded(h) => h'.response = h.response]_vars

\* C39: an invocation has at most four times MAX_REDIRECTS upstream requests
\* ahead of it when it starts, every answer, failure or abort leaves it with
\* fewer, and a request is in flight only while some are left; it has a
\* response exactly when it has ended, the response is set once, and every
\* invocation that started does end.
C39_EndsWithOneResponse ==
  /\ C39_RequestsBounded
  /\ ((h.pc \notin {"idle", "done"}) ~> (h.pc = "done"))

\* the upstream has redirected every request of the last fetch, after the
\* first three fetches have returned, and the run has ended with the error
C39_Witness ==
  /\ h.pc = "done"
  /\ h.order = NFetches
  /\ h.threw = TooManyRedirects
  /\ h.response.statusCode = 500 /\ h.response.error = TooManyRedirects

====
